---- MODULE Spec2Model ----
(***************************************************************************)
(* Field-file ingestion of NGuard: the field-area request handler          *)
(* (src/app/api/field-area/route.ts), the polygon area estimator           *)
(* (src/lib/polygonFile.ts) and the raster area estimator                  *)
(* (src/unnamed/part_005, imported as "@/lib/geotiffArea").                *)
(*                                                                         *)
(* Numbers.  The code computes in IEEE doubles; the model computes in      *)
(* exact integers and rationals:                                           *)
(*   - a coordinate is an integer count of 1/Scale (degrees, or ground     *)
(*     units of a projected file);                                         *)
(*   - a rational is a record [n, d], d > 0, in lowest terms;              *)
(*   - Math.round(v * 10^k) / 10^k is the integer round(v * 10^k)          *)
(*     (half up, as Math.round), so areaSqMeters and areaAcres of a        *)
(*     result are counts of 0.01 and a centroid is a count of 0.000001;    *)
(*   - Math.sin is tabulated where it is rational (TwoSin), and the        *)
(*     geodesic area is kept as an exact multiple of                       *)
(*     pi * EARTH_RADIUS_METERS^2 / (720 * Scale) square meters.           *)
(* Text that the code searches (file names, the .prj text) is a sequence   *)
(* of one-character strings.                                               *)
(***************************************************************************)
EXTENDS Integers, Sequences, FiniteSets, TLC

\* Coordinate resolution: one model unit is 1/Scale of a degree or ground unit.
Scale == 2 * 10

\* The largest number of rings of an input.
MaxRings == 2

-----------------------------------------------------------------------------
(* Arithmetic *)

Abs(v) == IF v < 0 THEN -v ELSE v

RECURSIVE Gcd(_, _)
Gcd(a, b) == IF b = 0 THEN a ELSE Gcd(b, a % b)

\* Math.round(n / d) for d > 0: floor(n/d + 1/2).
RoundDiv(n, d) == (n \div d) + (IF (n % d) >= d - (n % d) THEN 1 ELSE 0)

Rat(n, d) ==
  LET g == Gcd(Abs(n), Abs(d))
      s == IF d < 0 THEN -1 ELSE 1
  IN [n |-> (s * n) \div g, d |-> (s * d) \div g]

RatInt(k) == [n |-> k, d |-> 1]

RatMul(p, q) ==
  LET g1 == Gcd(Abs(p.n), q.d)
      g2 == Gcd(Abs(q.n), p.d)
  IN [n |-> (p.n \div g1) * (q.n \div g2), d |-> (p.d \div g2) * (q.d \div g1)]

RatAdd(p, q) ==
  LET g == Gcd(p.d, q.d)
  IN Rat(p.n * (q.d \div g) + q.n * (p.d \div g), (p.d \div g) * q.d)

RatNeg(p) == [n |-> -p.n, d |-> p.d]
RatSub(p, q) == RatAdd(p, RatNeg(q))
RatAbs(p) == [n |-> Abs(p.n), d |-> p.d]

\* p / k for an integer k # 0.
RatDivInt(p, k) == RatMul(p, Rat(1, k))

RatLeq(p, q) == p.n * q.d <= q.n * p.d

\* (10 * r) \div d and (10 * r) % d for 0 <= r < d, by additions modulo d.
RECURSIVE TimesTenMod(_, _, _, _, _)
TimesTenMod(r, d, k, acc, carry) ==
  IF k = 0 THEN [digit |-> carry, rem |-> acc]
  ELSE IF acc >= d - r
       THEN TimesTenMod(r, d, k - 1, acc - (d - r), carry + 1)
       ELSE TimesTenMod(r, d, k - 1, acc + r, carry)

RECURSIVE Decimals(_, _, _, _)
Decimals(r, d, k, acc) ==
  IF k = 0 THEN acc + (IF r >= d - r THEN 1 ELSE 0)
  ELSE LET t == TimesTenMod(r, d, 9, r, 0)
       IN Decimals(t.rem, d, k - 1, acc * 10 + t.digit)

RECURSIVE Pow10(_)
Pow10(k) == IF k = 0 THEN 1 ELSE 10 * Pow10(k - 1)

\* Math.round(q * 10^k): the value q rounded to k decimals, as a count of 10^-k.
RoundDecimals(q, k) == (q.n \div q.d) * Pow10(k) + Decimals(q.n % q.d, q.d, k, 0)

-----------------------------------------------------------------------------
(* Text *)

UpperChars == <<"A","B","C","D","E","F","G","H","I","J","K","L","M",
                "N","O","P","Q","R","S","T","U","V","W","X","Y","Z">>
LowerChars == <<"a","b","c","d","e","f","g","h","i","j","k","l","m",
                "n","o","p","q","r","s","t","u","v","w","x","y","z">>

LowerChar(c) ==
  IF \E i \in 1..26 : UpperChars[i] = c
  THEN LowerChars[CHOOSE i \in 1..26 : UpperChars[i] = c]
  ELSE c

\* String.prototype.toLowerCase
toLowerCase(text) == [i \in 1..Len(text) |-> LowerChar(text[i])]

\* String.prototype.endsWith
endsWith(text, suffix) ==
  /\ Len(suffix) <= Len(text)
  /\ SubSeq(text, Len(text) - Len(suffix) + 1, Len(text)) = suffix

\* String.prototype.includes
includes(text, pattern) ==
  \E i \in 0..(Len(text) - Len(pattern)) : SubSeq(text, i + 1, i + Len(pattern)) = pattern

-----------------------------------------------------------------------------
(* Results and errors *)

\* throw new Error(message)
Throw(message) == [ok |-> FALSE, error |-> message]
\* a read outside the buffer (DataView.getInt32, getUint8, new Uint8Array)
RangeError == Throw("Offset is outside the bounds of the DataView")

\* An area as reported: v counts the unit, "0.01" (a value rounded to two
\* decimals) or "geodesic" (pi * EARTH_RADIUS_METERS^2 / (720 * Scale) square
\* meters, about 8.9e9, for which rounding to two decimals leaves v as it is).
Amount(unit, v) == [unit |-> unit, v |-> v]

\* SQ_METERS_PER_ACRE * 10^4, to eight digits: the divisor that takes an area in
\* 10^-6 square meters to acres in 0.01.
SqMetersPerAcreE4 == 40468564

-----------------------------------------------------------------------------
(* Ring geometry: src/lib/polygonFile.ts *)

XY(x, y) == [x |-> x, y |-> y]

closeRingXY(points) ==
  IF Len(points) = 0 THEN points
  ELSE IF points[1].x = points[Len(points)].x /\ points[1].y = points[Len(points)].y
       THEN points
       ELSE Append(points, points[1])

\* A variant of isLikelyLonLat whose bounds are exclusive.
isLikelyLonLatExclusive(rings) ==
  \A i \in 1..Len(rings) : \A j \in 1..Len(rings[i]) :
     LET p == rings[i][j]
     IN p.x > -180 * Scale /\ p.x < 180 * Scale /\ p.y > -90 * Scale /\ p.y < 90 * Scale

isLikelyLonLat(rings) ==
  \A i \in 1..Len(rings) : \A j \in 1..Len(rings[i]) :
     LET p == rings[i][j]
     IN p.x >= -180 * Scale /\ p.x <= 180 * Scale /\ p.y >= -90 * Scale /\ p.y <= 90 * Scale

\* 2 * Math.sin(toRad(y / Scale)), at the latitudes where it is an integer.
TwoSin(y) ==
  CASE y = 0 -> 0
    [] y = 30 * Scale -> 1
    [] y = -30 * Scale -> -1
    [] y = 90 * Scale -> 2
    [] y = -90 * Scale -> -2

\* A variant of ringGeodesicSignedAreaSqMeters that sums over the ring as
\* given, without closing it.
ringGeodesicSignedAreaUnclosed(ringIn) ==
  LET area[i \in 0..(Len(ringIn) - 1)] ==
        IF i <= 0 THEN 0
        ELSE area[i - 1]
             + (ringIn[i + 1].x - ringIn[i].x) * (4 + TwoSin(ringIn[i].y) + TwoSin(ringIn[i + 1].y))
  IN IF Len(ringIn) = 0 THEN 0 ELSE area[Len(ringIn) - 1]

\* The signed geodesic area, as a count of pi * R^2 / (720 * Scale) square
\* meters: toRad(dx / Scale) * (2 + sin + sin) * R^2 / 2 is
\* dx * (4 + TwoSin + TwoSin) of them.
ringGeodesicSignedAreaSqMeters(ringIn) ==
  LET ring == closeRingXY(ringIn)
      area[i \in 0..(Len(ring) - 1)] ==
        IF i = 0 THEN 0
        ELSE area[i - 1]
             + (ring[i + 1].x - ring[i].x) * (4 + TwoSin(ring[i].y) + TwoSin(ring[i + 1].y))
  IN IF Len(ring) = 0 THEN 0 ELSE area[Len(ring) - 1]

\* Twice the signed shoelace area, in squared model units (the code's area / 2
\* is this over 2 * Scale^2 squared ground units).
ringPlanarSignedArea(ringIn) ==
  LET ring == closeRingXY(ringIn)
      area[i \in 0..(Len(ring) - 1)] ==
        IF i = 0 THEN 0
        ELSE area[i - 1] + (ring[i].x * ring[i + 1].y) - (ring[i + 1].x * ring[i].y)
  IN area[Len(ring) - 1]

\* The shoelace centroid, in model units, as rationals.
ringPlanarCentroid(ringIn) ==
  LET ring == closeRingXY(ringIn)
      cross(i) == ring[i].x * ring[i + 1].y - ring[i + 1].x * ring[i].y
      a2[i \in 0..(Len(ring) - 1)] == IF i = 0 THEN 0 ELSE a2[i - 1] + cross(i)
      cx[i \in 0..(Len(ring) - 1)] ==
        IF i = 0 THEN 0 ELSE cx[i - 1] + (ring[i].x + ring[i + 1].x) * cross(i)
      cy[i \in 0..(Len(ring) - 1)] ==
        IF i = 0 THEN 0 ELSE cy[i - 1] + (ring[i].y + ring[i + 1].y) * cross(i)
      n == Len(ring) - 1
  IN IF a2[n] = 0
     THEN (IF Len(ring) > 0 THEN [x |-> RatInt(ring[1].x), y |-> RatInt(ring[1].y)]
                            ELSE [x |-> RatInt(0), y |-> RatInt(0)])
     ELSE [x |-> Rat(cx[n], 3 * a2[n]), y |-> Rat(cy[n], 3 * a2[n])]

-----------------------------------------------------------------------------
(* combineRings: src/lib/polygonFile.ts *)

Str_foot_us == <<"f","o","o","t","_","u","s">>
Str_us_survey_foot == <<"u","s"," ","s","u","r","v","e","y"," ","f","o","o","t">>
Str_foot == <<"f","o","o","t">>
Str_meter == <<"m","e","t","e","r">>

\* options of a caller that passes none, or no .prj and no .dbf
NoText == [present |-> FALSE, text |-> <<>>]
NoLonLat == [isNull |-> TRUE, lon |-> RatInt(0), lat |-> RatInt(0)]
NoOptions == [prjText |-> NoText, dbfLonLat |-> NoLonLat]

\* A variant of unitToMeters that takes every unit for the meter.
unitToMetersAlwaysOne(options) == [known |-> TRUE, factor |-> RatInt(1)]

\* A variant of unitToMeters that takes a text mentioning "foot" and "us",
\* anywhere, for the US survey foot.
unitToMetersByWords(options) ==
  LET prj == toLowerCase(IF options.prjText.present THEN options.prjText.text ELSE <<>>)
  IN IF includes(prj, Str_foot) /\ includes(prj, <<"u","s">>)
       THEN [known |-> TRUE, factor |-> Rat(1200, 3937)]
     ELSE IF includes(prj, Str_foot)
       THEN [known |-> TRUE, factor |-> Rat(381, 1250)]
     ELSE IF prj # <<>> /\ ~includes(prj, Str_meter)
       THEN [known |-> FALSE, factor |-> RatInt(1)]
     ELSE [known |-> TRUE, factor |-> RatInt(1)]

\* unitToMeters of the projected branch, as a rational; "unknown" is the throw.
\* 381/1250 is 0.3048 and 1200/3937 is 0.3048006096012192.
unitToMeters(options) ==
  LET prj == toLowerCase(IF options.prjText.present THEN options.prjText.text ELSE <<>>)
  IN IF includes(prj, Str_foot_us) \/ includes(prj, Str_us_survey_foot)
       THEN [known |-> TRUE, factor |-> Rat(1200, 3937)]
     ELSE IF includes(prj, Str_foot)
       THEN [known |-> TRUE, factor |-> Rat(381, 1250)]
     ELSE IF prj # <<>> /\ ~includes(prj, Str_meter)
       THEN [known |-> FALSE, factor |-> RatInt(1)]
     ELSE [known |-> TRUE, factor |-> RatInt(1)]

\* Sums over the rings of at least 3 points (the loops' "continue").
SumRings(rings, F(_)) ==
  LET s[i \in 0..Len(rings)] ==
        IF i = 0 THEN 0
        ELSE IF Len(rings[i]) < 3 THEN s[i - 1] ELSE s[i - 1] + F(rings[i])
  IN s[Len(rings)]

SumRingsRat(rings, F(_)) ==
  LET s[i \in 0..Len(rings)] ==
        IF i = 0 THEN RatInt(0)
        ELSE IF Len(rings[i]) < 3 THEN s[i - 1] ELSE RatAdd(s[i - 1], F(rings[i]))
  IN s[Len(rings)]

PointCount(rings) ==
  LET s[i \in 0..Len(rings)] == IF i = 0 THEN 0 ELSE s[i - 1] + Len(rings[i])
  IN s[Len(rings)]

\* The geographic branch (lines 105-126).
combineGeographic(rings, source) ==
  LET w(ring) == Abs(ringGeodesicSignedAreaSqMeters(ring))
      signedAreaSum == SumRings(rings, ringGeodesicSignedAreaSqMeters)
      wx(ring) == RatMul(ringPlanarCentroid(ring).x, RatInt(w(ring)))
      wy(ring) == RatMul(ringPlanarCentroid(ring).y, RatInt(w(ring)))
      centroidXWeighted == SumRingsRat(rings, wx)
      centroidYWeighted == SumRingsRat(rings, wy)
      absArea == Abs(signedAreaSum)
  IN IF absArea = 0 THEN Throw("Polygon area is zero.")
     ELSE [ok |-> TRUE,
           areaSqMeters |-> Amount("geodesic", absArea),
           areaAcres |-> Amount("geodesic", absArea),
           centroidLon |-> RoundDecimals(RatDivInt(centroidXWeighted, absArea * Scale), 6),
           centroidLat |-> RoundDecimals(RatDivInt(centroidYWeighted, absArea * Scale), 6),
           ringCount |-> Len(rings),
           pointCount |-> PointCount(rings),
           source |-> source]

\* The projected branch (lines 128-171).
combineProjected(rings, source, options) ==
  LET unit == unitToMeters(options)
      signedAreaSum == SumRings(rings, ringPlanarSignedArea)
      \* |sum of areaNative * unitToMeters^2|, in square meters
      absArea == RatMul(RatMul(Rat(Abs(signedAreaSum), 2 * Scale * Scale), unit.factor),
                        unit.factor)
  IN IF ~unit.known
       THEN Throw("Projected shapefile units are unknown. Include .prj with meter/foot units.")
     ELSE IF absArea.n = 0 THEN Throw("Polygon area is zero.")
     ELSE IF options.dbfLonLat.isNull
       THEN Throw("Polygon is projected. Add longitude/latitude columns in DBF or use WGS84 geometry.")
     ELSE [ok |-> TRUE,
           areaSqMeters |-> Amount("0.01", RoundDecimals(absArea, 2)),
           areaAcres |-> Amount("0.01", RoundDiv(RoundDecimals(absArea, 6), SqMetersPerAcreE4)),
           centroidLon |-> RoundDecimals(options.dbfLonLat.lon, 6),
           centroidLat |-> RoundDecimals(options.dbfLonLat.lat, 6),
           ringCount |-> Len(rings),
           pointCount |-> PointCount(rings),
           source |-> source]

combineRings(rings, source, options) ==
  IF Len(rings) = 0 THEN Throw("No polygon rings found.")
  ELSE IF isLikelyLonLat(rings) THEN combineGeographic(rings, source)
  ELSE combineProjected(rings, source, options)

-----------------------------------------------------------------------------
(* Uploaded content.  A file's content is a record with a kind: "json" (a     *)
(* document), "table" (lines of cells), "shp", "dbf", "zip" (the decoded      *)
(* layout of the bytes), "text" (plain text) or "other".  Read as a format it *)
(* is not in, a content is what such bytes are to that reader: not JSON, a    *)
(* single line, no file code 9994, no end-of-central-directory signature.     *)

\* A cell of a delimited line, or a field of a .dbf record: its text, and for a
\* cell that holds decimal text the number it denotes (in model units).
Cell(kind, v, text) == [kind |-> kind, v |-> v, text |-> text]
NumberCell(v) == Cell("number", v, <<"0">>)
BlankCell == Cell("blank", 0, <<>>)
TextCell(text) == Cell("text", 0, text)

\* Number(text): a blank cell is 0 (Number("") is 0), text that is no number is NaN
NumberOf(cell) ==
  CASE cell.kind = "number" -> [finite |-> TRUE, v |-> cell.v]
    [] cell.kind = "blank" -> [finite |-> TRUE, v |-> 0]
    [] OTHER -> [finite |-> FALSE, v |-> 0]

\* v.replace(/[\s_\-]/g, "")
normalize(text) == SelectSeq(text, LAMBDA c : c \notin {" ", "_", "-"})

\* String.prototype.trim, for text whose only white space is " "
RECURSIVE trimStart(_)
trimStart(text) ==
  IF Len(text) > 0 /\ Head(text) = " " THEN trimStart(Tail(text)) ELSE text
RECURSIVE trimEnd(_)
trimEnd(text) ==
  IF Len(text) > 0 /\ text[Len(text)] = " "
  THEN trimEnd(SubSeq(text, 1, Len(text) - 1)) ELSE text
trim(text) == trimEnd(trimStart(text))

LonNames == { <<"l","o","n","g","i","t","u","d","e">>, <<"l","o","n">>,
              <<"l","n","g">>, <<"x">> }
LatNames == { <<"l","a","t","i","t","u","d","e">>, <<"l","a","t">>, <<"y">> }

\* Array.prototype.findIndex over names, 0-based; -1 when none matches.
findIndex(names, wanted) ==
  IF \E i \in 1..Len(names) : normalize(names[i]) \in wanted
  THEN (CHOOSE i \in 1..Len(names) :
          /\ normalize(names[i]) \in wanted
          /\ \A j \in 1..(i - 1) : normalize(names[j]) \notin wanted) - 1
  ELSE -1

-----------------------------------------------------------------------------
(* parseGeoJsonText *)

RECURSIVE Flatten(_)
Flatten(seqs) == IF Len(seqs) = 0 THEN <<>> ELSE Head(seqs) \o Flatten(Tail(seqs))

\* pts of one coordinate ring: the pairs that are arrays of at least 2 elements
ringPoints(ring) ==
  LET good == SelectSeq(ring, LAMBDA pair : pair.isPair)
  IN [i \in 1..Len(good) |-> XY(good[i].x, good[i].y)]

\* A variant of pushRings that keeps the rings of fewer than 3 points.
pushRingsOfAnyLength(coordRings) ==
  [i \in 1..Len(coordRings) |-> ringPoints(coordRings[i])]

\* the rings pushed for a list of coordinate rings
pushRings(coordRings) ==
  SelectSeq([i \in 1..Len(coordRings) |-> ringPoints(coordRings[i])],
            LAMBDA pts : Len(pts) >= 3)

\* handleGeom: the rings one geometry adds
handleGeom(geom) ==
  CASE geom.type = "Polygon" -> pushRings(geom.coordinates)
    [] geom.type = "MultiPolygon" ->
         Flatten([i \in 1..Len(geom.coordinates) |-> pushRings(geom.coordinates[i])])
    [] OTHER -> <<>>

parseGeoJsonText(content) ==
  IF content.kind # "json" \/ ~content.wellFormed
  THEN Throw("SyntaxError: not valid JSON")
  ELSE LET parsed == content.doc
           rings ==
             CASE parsed.type = "FeatureCollection" ->
                    Flatten([i \in 1..Len(parsed.features) |->
                               handleGeom(parsed.features[i].geometry)])
               [] parsed.type = "Feature" -> handleGeom(parsed.geometry)
               [] OTHER -> handleGeom(parsed)
       IN combineRings(rings, "geojson", NoOptions)

-----------------------------------------------------------------------------
(* parseLonLatTable *)

\* text.split(/\r?\n/).map(trim).filter(Boolean), each line split at the
\* delimiter found in the header line; an empty line is one blank cell
tableLines(content) ==
  IF content.kind = "table"
  THEN SelectSeq(content.lines, LAMBDA l : l # <<BlankCell>>)
  ELSE << <<TextCell(<<"?">>)>> >>

parseLonLatTable(content) ==
  LET lines == tableLines(content)
  IN IF Len(lines) < 2 THEN Throw("Coordinate table is empty.")
     ELSE
       LET headers == [i \in 1..Len(lines[1]) |-> toLowerCase(trim(lines[1][i].text))]
           lonIdx == findIndex(headers, LonNames)
           latIdx == findIndex(headers, LatNames)
           maxIdx == IF lonIdx > latIdx THEN lonIdx ELSE latIdx
           rowOk(row) ==
             /\ maxIdx < Len(row)
             /\ NumberOf(row[lonIdx + 1]).finite
             /\ NumberOf(row[latIdx + 1]).finite
           rows == SelectSeq(Tail(lines), rowOk)
           ring == [i \in 1..Len(rows) |->
                      XY(NumberOf(rows[i][lonIdx + 1]).v, NumberOf(rows[i][latIdx + 1]).v)]
       IN IF lonIdx < 0 \/ latIdx < 0
            THEN Throw("Could not find longitude/latitude columns in coordinate table.")
          ELSE IF Len(ring) < 3
            THEN Throw("Need at least 3 valid longitude/latitude rows.")
          ELSE combineRings(<<ring>>, "table", NoOptions)

-----------------------------------------------------------------------------
(* parseShpRings, parseDbfLonLat, parseShpWithContext *)

\* The rings of one polygon record: part p runs from parts[p] to the next
\* part's start, or to numPoints (0-based point indices, within the record).
recordRings(rec) ==
  LET numParts == Len(rec.parts)
      numPoints == Len(rec.points)
      ringOf(p) ==
        LET start == rec.parts[p]
            end == IF p + 1 <= numParts THEN rec.parts[p + 1] ELSE numPoints
        IN IF start < end THEN SubSeq(rec.points, start + 1, end) ELSE <<>>
  IN SelectSeq([p \in 1..numParts |-> ringOf(p)], LAMBDA ring : Len(ring) >= 3)

\* [ok, rings] or the throw
parseShpRings(content) ==
  IF content.kind # "shp" THEN Throw("Invalid shapefile header.")
  ELSE IF content.byteLength < 100 THEN Throw("Invalid .shp file.")
  ELSE IF content.fileCode # 9994 THEN Throw("Invalid shapefile header.")
  ELSE [ok |-> TRUE,
        rings |-> Flatten([i \in 1..Len(content.records) |->
                    IF content.records[i].shapeType \in {5, 15, 25}
                    THEN recordRings(content.records[i]) ELSE <<>>])]

\* A variant of parseDbfLonLat that gives the origin where the code gives null.
parseDbfLonLatOrigin(content) == [isNull |-> FALSE, lon |-> RatInt(0), lat |-> RatInt(0)]

\* The layout of a .dbf of the model: 32 bytes, a descriptor of 32 bytes per
\* field and the end marker; each record is a flag and 12 characters per field.
\* The header gives headerLength and the record length, whatever the length
\* of the buffer.
dbfRecordLength(content) == 1 + 12 * Len(content.fields)
\* lines 293-299: the descriptor at off is read when off + 32 <= headerLength;
\* its byte 16 is the last one read, outside the buffer when off + 16 is not
\* below byteLength
dbfReadThrows(content) ==
  /\ content.kind = "dbf"
  /\ content.byteLength >= 33
  /\ \E i \in 1..Len(content.fields) :
        LET off == 32 + 32 * (i - 1)
        IN off + 32 <= content.headerLength /\ off + 16 >= content.byteLength

\* null, or the mean of the valid records (in degrees, as rationals)
parseDbfLonLat(content) ==
  IF content.kind # "dbf" THEN NoLonLat
  ELSE IF content.byteLength < 33 THEN NoLonLat
  ELSE
    LET names == [i \in 1..Len(content.fields) |-> toLowerCase(trim(content.fields[i]))]
        lonIdx == findIndex(names, LonNames)
        latIdx == findIndex(names, LatNames)
        valid(rec) ==
          LET lon == NumberOf(rec.values[lonIdx + 1])
              lat == NumberOf(rec.values[latIdx + 1])
          IN /\ ~rec.deleted
             /\ lon.finite /\ lat.finite
             /\ lon.v >= -180 * Scale /\ lon.v <= 180 * Scale
             /\ lat.v >= -90 * Scale /\ lat.v <= 90 * Scale
        inBuffer == {r \in 1..Len(content.records) :
                       content.headerLength + r * dbfRecordLength(content) <= content.byteLength}
        recs == SelectSeq(SubSeq(content.records, 1, Cardinality(inBuffer)), valid)
        count == Len(recs)
        lonSum[i \in 0..count] ==
          IF i = 0 THEN 0 ELSE lonSum[i - 1] + NumberOf(recs[i].values[lonIdx + 1]).v
        latSum[i \in 0..count] ==
          IF i = 0 THEN 0 ELSE latSum[i - 1] + NumberOf(recs[i].values[latIdx + 1]).v
    IN IF lonIdx < 0 \/ latIdx < 0 THEN NoLonLat
       ELSE IF count = 0 THEN NoLonLat
       ELSE [isNull |-> FALSE,
             lon |-> Rat(lonSum[count], count * Scale),
             lat |-> Rat(latSum[count], count * Scale)]

\* options: prjText is NoText or a present text, dbfBuffer a present content or none
NoBuffer == [present |-> FALSE, content |-> [kind |-> "other"]]
NoShpOptions == [prjText |-> NoText, dbfBuffer |-> NoBuffer]

parseShpWithContext(shpContent, source, options) ==
  LET parsedRings == parseShpRings(shpContent)
      dbfLonLat == IF options.dbfBuffer.present
                   THEN parseDbfLonLat(options.dbfBuffer.content) ELSE NoLonLat
  IN IF ~parsedRings.ok THEN parsedRings
     ELSE IF options.dbfBuffer.present /\ dbfReadThrows(options.dbfBuffer.content)
       THEN RangeError
     ELSE combineRings(parsedRings.rings, source,
                       [prjText |-> options.prjText, dbfLonLat |-> dbfLonLat])

-----------------------------------------------------------------------------
(* parseZipEntries *)

\* name.replace(/\\/g, "/").split("/").pop() || ""
RECURSIVE lastSegment(_)
lastSegment(name) ==
  IF \E i \in 1..Len(name) : name[i] \in {"/", "\\"}
  THEN lastSegment(Tail(name))
  ELSE name

\* Map.prototype.set on a map kept as its entries in insertion order
mapSet(files, key, value) ==
  IF \E i \in 1..Len(files) : files[i].key = key
  THEN [i \in 1..Len(files) |->
          IF files[i].key = key THEN [key |-> key, value |-> value] ELSE files[i]]
  ELSE Append(files, [key |-> key, value |-> value])

mapHas(files, key) == \E i \in 1..Len(files) : files[i].key = key
mapGet(files, key) == files[CHOOSE i \in 1..Len(files) : files[i].key = key].value

\* A variant of readEntries that stops at the first member with an unsupported
\* compression method.
RECURSIVE readEntriesStopAtUnsupported(_, _, _)
readEntriesStopAtUnsupported(entries, i, files) ==
  IF i > Len(entries) THEN files
  ELSE LET e == entries[i]
           name == lastSegment(e.name)
       IN IF ~e.localSigOk THEN readEntriesStopAtUnsupported(entries, i + 1, files)
          ELSE IF e.compression \notin {0, 8} THEN files
          ELSE IF name # <<>>
            THEN readEntriesStopAtUnsupported(entries, i + 1,
                                              mapSet(files, toLowerCase(name), e.data))
          ELSE readEntriesStopAtUnsupported(entries, i + 1, files)

\* The loop over the central directory (lines 369-404), entry i onwards.
RECURSIVE readEntries(_, _, _)
readEntries(entries, i, files) ==
  IF i > Len(entries) THEN files
  ELSE LET e == entries[i]
           name == lastSegment(e.name)
       IN IF ~e.localSigOk THEN readEntries(entries, i + 1, files)
          ELSE IF e.compression \notin {0, 8} THEN readEntries(entries, i + 1, files)
          ELSE IF name # <<>>
            THEN readEntries(entries, i + 1, mapSet(files, toLowerCase(name), e.data))
          ELSE readEntries(entries, i + 1, files)

\* The search for the end-of-central-directory record (lines 354-362).  An
\* archive is its length in bytes and the occurrences of the signature
\* 0x06054b50 in it, each with its offset and with the central directory that
\* the fields after it lead to.  The search goes down from length - 22 to
\* max(0, length - 65557) and stops at the first occurrence it meets.
EocdSize == 22
EocdWindow == 65557
searchedSignatures(content) ==
  LET min == IF content.byteLength - EocdWindow > 0 THEN content.byteLength - EocdWindow
             ELSE 0
  IN {i \in 1..Len(content.signatures) :
        /\ content.signatures[i].offset >= min
        /\ content.signatures[i].offset <= content.byteLength - EocdSize}

\* A variant of parseZipEntries that uses the occurrence closest to the start
\* of the buffer, wherever it is.
parseZipEntriesFirstSignature(content) ==
  IF content.kind # "zip" \/ content.signatures = <<>> THEN Throw("Invalid ZIP file.")
  ELSE LET eocd == CHOOSE i \in 1..Len(content.signatures) :
                     \A j \in 1..Len(content.signatures) :
                        content.signatures[i].offset <= content.signatures[j].offset
       IN [ok |-> TRUE, files |-> readEntries(content.signatures[eocd].entries, 1, <<>>)]

\* [ok, files] or the throw
parseZipEntries(content) ==
  IF content.kind # "zip" THEN Throw("Invalid ZIP file.")
  ELSE IF searchedSignatures(content) = {} THEN Throw("Invalid ZIP file.")
  ELSE LET eocd == CHOOSE i \in searchedSignatures(content) :
                     \A j \in searchedSignatures(content) :
                        content.signatures[j].offset <= content.signatures[i].offset
       IN [ok |-> TRUE, files |-> readEntries(content.signatures[eocd].entries, 1, <<>>)]

-----------------------------------------------------------------------------
(* parsePolygonUpload *)

Ext_geojson == <<".","g","e","o","j","s","o","n">>
Ext_json == <<".","j","s","o","n">>
Ext_shp == <<".","s","h","p">>
Ext_csv == <<".","c","s","v">>
Ext_tsv == <<".","t","s","v">>
Ext_txt == <<".","t","x","t">>
Ext_zip == <<".","z","i","p">>
Ext_dbf == <<".","d","b","f">>
Ext_prj == <<".","p","r","j">>

\* new TextDecoder("utf-8").decode(bytes)
decodeText(content) == IF content.kind = "text" THEN content.text ELSE <<"?">>

\* The .zip branch (lines 430-442), after the archive is read.
parseZipBundle(files) ==
  IF ~\E i \in 1..Len(files) : endsWith(files[i].key, Ext_shp)
  THEN Throw("ZIP must contain a .shp file.")
  ELSE
    LET shpEntry == files[CHOOSE i \in 1..Len(files) :
                            /\ endsWith(files[i].key, Ext_shp)
                            /\ \A j \in 1..(i - 1) : ~endsWith(files[j].key, Ext_shp)]
        base == SubSeq(shpEntry.key, 1, Len(shpEntry.key) - 4)
        dbfKey == base \o Ext_dbf
        prjKey == base \o Ext_prj
    IN parseShpWithContext(shpEntry.value, "zip-shp",
         [dbfBuffer |-> IF mapHas(files, dbfKey)
                        THEN [present |-> TRUE, content |-> mapGet(files, dbfKey)]
                        ELSE NoBuffer,
          prjText |-> IF mapHas(files, prjKey)
                      THEN [present |-> TRUE, text |-> decodeText(mapGet(files, prjKey))]
                      ELSE NoText])

\* What one call does: result is the value returned or the throw, via the
\* sub-parser that ran ("none" when the throw is parsePolygonUpload's own), read
\* the method of File awaited to get the content ("none" when none was).
Outcome(result, via, read) == [result |-> result, via |-> via, read |-> read]

\* A variant of parsePolygonUpload that picks the sub-parser from the content.
parsePolygonUploadByContent(file) ==
  IF file.content.kind = "zip"
  THEN LET entries == parseZipEntries(file.content)
       IN Outcome(IF entries.ok THEN parseZipBundle(entries.files) ELSE entries,
                  "parseZipEntries", "arrayBuffer")
  ELSE Outcome(parseGeoJsonText(file.content), "parseGeoJsonText", "text")

parsePolygonUpload(file) ==
  LET name == toLowerCase(file.name)
  IN IF endsWith(name, Ext_geojson) \/ endsWith(name, Ext_json)
       THEN Outcome(parseGeoJsonText(file.content), "parseGeoJsonText", "text")
     ELSE IF endsWith(name, Ext_shp)
       THEN Outcome(parseShpWithContext(file.content, "shp", NoShpOptions),
                    "parseShpWithContext", "arrayBuffer")
     ELSE IF endsWith(name, Ext_csv) \/ endsWith(name, Ext_tsv) \/ endsWith(name, Ext_txt)
       THEN Outcome(parseLonLatTable(file.content), "parseLonLatTable", "text")
     ELSE IF endsWith(name, Ext_zip)
       THEN LET entries == parseZipEntries(file.content)
            IN Outcome(IF entries.ok THEN parseZipBundle(entries.files) ELSE entries,
                       "parseZipEntries", "arrayBuffer")
     ELSE Outcome(Throw("Unsupported polygon file type. Use .zip, .shp, .geojson, .json, .csv, .tsv, or .txt."),
                  "none", "none")

-----------------------------------------------------------------------------
(* estimateAreaFromGeoTiff: src/unnamed/part_005.  A buffer is its length, its *)
(* 2-byte marker, the 2 bytes of its version field and the entries of its      *)
(* first directory, each with the values stored for it (rationals).            *)

typeSize(type) ==
  CASE type \in {1, 2} -> 1
    [] type = 3 -> 2
    [] type = 4 -> 4
    [] type \in {5, 12} -> 8
    [] OTHER -> 0

\* A variant of getU16 that reads little-endian whatever the marker is.
getU16LittleEndian(bytes, endian) == bytes[1] + 256 * bytes[2]

getU16(bytes, endian) ==
  IF endian = "LE" THEN bytes[1] + 256 * bytes[2] ELSE 256 * bytes[1] + bytes[2]

\* The decoded values: none for a type of size 0, and none for type 2, which
\* has a size and no decoding branch.
parseEntryValues(entry) ==
  IF typeSize(entry.type) = 0 THEN <<>>
  ELSE IF entry.type \in {1, 3, 4, 5, 12} THEN entry.values
  ELSE <<>>

\* entryMap: the last entry of a tag is the one kept
hasEntry(entries, tag) == \E i \in 1..Len(entries) : entries[i].tag = tag
getEntry(entries, tag) ==
  entries[CHOOSE i \in 1..Len(entries) :
            /\ entries[i].tag = tag
            /\ \A j \in (i + 1)..Len(entries) : entries[j].tag # tag]

valuesOf(entries, tag) ==
  IF hasEntry(entries, tag) THEN parseEntryValues(getEntry(entries, tag)) ELSE <<>>

\* A variant of geoKey that also takes the keys stored in another tag.
geoKeyAnyLocation(values, keyId) ==
  LET count == IF Len(values) < 4 THEN 0 ELSE values[4].n \div values[4].d
      hits == {k \in 1..count : 4 * k + 4 <= Len(values) /\ values[4 * k + 1] = RatInt(keyId)}
  IN IF hits = {} THEN [has |-> FALSE, v |-> RatInt(0)]
     ELSE [has |-> TRUE,
           v |-> values[4 * (CHOOSE k \in hits : \A m \in hits : m <= k) + 4]]

\* A variant of geoKey that finds no key.
geoKeyAbsent(values, keyId) == [has |-> FALSE, v |-> RatInt(0)]

\* parseGeoKeys: the keys stored inline; geoKey gives [has, v] for a key id
geoKey(values, keyId) ==
  LET count == IF Len(values) < 4 THEN 0 ELSE values[4].n \div values[4].d
      inline(k) ==
        /\ 4 * k + 4 <= Len(values)
        /\ values[4 * k + 1] = RatInt(keyId)
        /\ values[4 * k + 2] = RatInt(0)
        /\ values[4 * k + 3] = RatInt(1)
      hits == {k \in 1..count : inline(k)}
  IN IF hits = {} THEN [has |-> FALSE, v |-> RatInt(0)]
     ELSE [has |-> TRUE,
           v |-> values[4 * (CHOOSE k \in hits : \A m \in hits : m <= k) + 4]]

\* A variant of elementOr0 that takes a missing element to be 1.
elementOrOne(values, i) == IF i <= Len(values) THEN values[i] ELSE RatInt(1)

\* v ?? 0 of an element that may be missing
elementOr0(values, i) == IF i <= Len(values) THEN values[i] ELSE RatInt(0)

NoCentroid == [present |-> FALSE, lat |-> RatInt(0), lon |-> RatInt(0)]

estimateAreaFromGeoTiff(buf) ==
  IF buf.byteLength < 8 THEN Throw("Invalid TIFF: file too small.")
  ELSE IF buf.marker \notin {<<"I", "I">>, <<"M", "M">>} THEN Throw("Invalid TIFF byte order.")
  ELSE
    LET endian == IF buf.marker = <<"I", "I">> THEN "LE" ELSE "BE"
        entries == buf.entries
        widthValues == parseEntryValues(getEntry(entries, 256))
        heightValues == parseEntryValues(getEntry(entries, 257))
        width == elementOr0(widthValues, 1)
        height == elementOr0(heightValues, 1)
        pixelScale == valuesOf(entries, 33550)
        modelTransform == valuesOf(entries, 34264)
        scaleX == RatAbs(elementOr0(pixelScale, 1))
        scaleY == RatAbs(elementOr0(pixelScale, 2))
        useTransform == (scaleX.n = 0 \/ scaleY.n = 0) /\ Len(modelTransform) >= 16
        pixelSizeX == IF useTransform THEN RatAbs(modelTransform[1]) ELSE scaleX
        pixelSizeY == IF useTransform THEN RatAbs(modelTransform[6]) ELSE scaleY
        geoKeys == valuesOf(entries, 34735)
        modelType == geoKey(geoKeys, 1024)
        linearUnitCode == geoKey(geoKeys, 3076)
        code == linearUnitCode.v
        unknownUnit == linearUnitCode.has /\ code.n # 0
                       /\ code \notin {RatInt(9001), RatInt(9002), RatInt(9003)}
        unitFactor == IF linearUnitCode.has /\ code = RatInt(9002) THEN Rat(381, 1250)
                      ELSE IF linearUnitCode.has /\ code = RatInt(9003) THEN Rat(1200, 3937)
                      ELSE RatInt(1)
        units == IF linearUnitCode.has /\ code = RatInt(9002) THEN "international feet"
                 ELSE IF linearUnitCode.has /\ code = RatInt(9003) THEN "US survey feet"
                 ELSE IF unknownUnit THEN "code (assumed meters)"
                 ELSE "meters"
        warnings == IF unknownUnit
                    THEN << [text |-> "Unknown unit code; assuming meters.", code |-> code] >>
                    ELSE <<>>
        pixelAreaSqMeters == RatMul(RatMul(pixelSizeX, unitFactor), RatMul(pixelSizeY, unitFactor))
        areaSqMeters == RatMul(RatMul(width, height), pixelAreaSqMeters)
        tiePoint == valuesOf(entries, 33922)
        cx == RatAdd(tiePoint[4],
                     RatMul(RatSub(RatMul(width, Rat(1, 2)), tiePoint[1]), pixelScale[1]))
        cy == RatSub(tiePoint[5],
                     RatMul(RatSub(RatMul(height, Rat(1, 2)), tiePoint[2]), pixelScale[2]))
        centroid ==
          IF modelType.has /\ modelType.v = RatInt(2)
             /\ Len(tiePoint) >= 6 /\ Len(pixelScale) >= 2
             /\ RatLeq(RatInt(-90), cy) /\ RatLeq(cy, RatInt(90))
             /\ RatLeq(RatInt(-180), cx) /\ RatLeq(cx, RatInt(180))
          THEN [present |-> TRUE, lat |-> cy, lon |-> cx]
          ELSE NoCentroid
    IN IF getU16(buf.version, endian) # 42 THEN Throw("Unsupported TIFF format.")
       ELSE IF ~hasEntry(entries, 256) \/ ~hasEntry(entries, 257)
         THEN Throw("TypeError: Cannot read properties of undefined (reading 'type')")
       ELSE IF width.n = 0 \/ height.n = 0 THEN Throw("Could not read TIFF width/height.")
       ELSE IF pixelSizeX.n = 0 \/ pixelSizeY.n = 0
         THEN Throw("GeoTIFF missing pixel scale metadata.")
       ELSE [ok |-> TRUE,
             areaSqMeters |-> RoundDecimals(areaSqMeters, 2),
             areaAcres |-> RoundDiv(RoundDecimals(areaSqMeters, 6), SqMetersPerAcreE4),
             width |-> width,
             height |-> height,
             pixelSizeX |-> RoundDecimals(pixelSizeX, 4),
             pixelSizeY |-> RoundDecimals(pixelSizeY, 4),
             units |-> units,
             centroid |-> centroid,
             warnings |-> warnings]

-----------------------------------------------------------------------------
(* Inputs: rings *)

RECURSIVE Reverse(_)
Reverse(seq) == IF Len(seq) = 0 THEN <<>> ELSE Append(Reverse(Tail(seq)), Head(seq))

\* Sequences over a set, of length 0 to n.
RECURSIVE SeqsUpTo(_, _)
SeqsUpTo(S, n) ==
  IF n = 0 THEN {<<>>}
  ELSE LET shorter == SeqsUpTo(S, n - 1)
       IN shorter \cup {Append(q, e) : q \in {t \in shorter : Len(t) = n - 1}, e \in S}

\* Geographic rings (every point within [-180,180] x [-90,90] degrees).
RingG1 == <<XY(0, 0), XY(10 * Scale, 0), XY(10 * Scale, 30 * Scale)>>
RingG1r == Reverse(RingG1)
RingG2r == <<XY(9 * Scale, 30 * Scale), XY(9 * Scale, 0), XY(0, 0)>>
RingQuad == <<XY(0, 0), XY(10 * Scale, 0), XY(10 * Scale, 30 * Scale), XY(0, 30 * Scale), XY(0, 0)>>
RingSliver == <<XY(0, 0), XY(1, 0), XY(1, 30 * Scale)>>
RingSouth == <<XY(-10 * Scale, -30 * Scale), XY(0, -30 * Scale), XY(0, 0)>>
\* Degenerate geographic rings: collinear on a diagonal, collinear on a
\* meridian, one point three times, and a ring of two points.
RingDiagonal == <<XY(0, 0), XY(Scale, 30 * Scale), XY(3 * Scale, 90 * Scale)>>
RingMeridian == <<XY(5 * Scale, -30 * Scale), XY(5 * Scale, 0), XY(5 * Scale, 30 * Scale)>>
RingDup == <<XY(5 * Scale, 30 * Scale), XY(5 * Scale, 30 * Scale), XY(5 * Scale, 30 * Scale)>>
RingShort == <<XY(0, 0), XY(10 * Scale, 0)>>
\* Rings with a point outside the geographic range: one point outside, a
\* triangle of legs 10/Scale, a triangle of legs 1/Scale, and collinear points.
RingEdge == <<XY(0, 0), XY(181 * Scale, 0), XY(0, 1)>>
RingP1 == <<XY(200 * Scale, 100 * Scale), XY(200 * Scale + 10, 100 * Scale),
            XY(200 * Scale, 100 * Scale + 10)>>
RingPTiny == <<XY(200 * Scale, 100 * Scale), XY(200 * Scale + 1, 100 * Scale),
               XY(200 * Scale, 100 * Scale + 1)>>
RingPLine == <<XY(200 * Scale, 100 * Scale), XY(200 * Scale + 1, 100 * Scale + 1),
               XY(200 * Scale + 2, 100 * Scale + 2)>>

\* a projected triangle of 35.8975 square units: 3.33 square meters in
\* international feet, 3.34 in US survey feet
RingPFeet == <<XY(200 * Scale, 100 * Scale), XY(200 * Scale + 173, 100 * Scale),
               XY(200 * Scale, 100 * Scale + 166)>>

\* points on the bounds of the geographic range: on the equator from 180 to
\* -180 degrees, and on the prime meridian from -90 to 90 degrees
RingEquator == <<XY(180 * Scale, 0), XY(-180 * Scale, 0), XY(0, 0)>>
RingPrimeMeridian == <<XY(0, -90 * Scale), XY(0, 90 * Scale), XY(0, 0)>>

GeographicRings == {RingG1, RingG1r, RingG2r, RingQuad, RingSouth,
                    RingDiagonal, RingMeridian, RingDup, RingShort}
ProjectedRings == {RingEdge, RingP1, RingPTiny, RingPLine}
RingPool == GeographicRings \cup ProjectedRings
BundleRingPool == {RingSliver, RingDiagonal, RingEdge, RingP1, RingPTiny, RingPLine}

RingLists == SeqsUpTo(RingPool, MaxRings)
BundleRingLists == SeqsUpTo(BundleRingPool, MaxRings)

-----------------------------------------------------------------------------
(* Inputs: contents *)

Pair(p) == [isPair |-> TRUE, x |-> p.x, y |-> p.y]
BadPair == [isPair |-> FALSE, x |-> 0, y |-> 0]
coordsOf(ring) == [i \in 1..Len(ring) |-> Pair(ring[i])]

Json(doc) == [kind |-> "json", wellFormed |-> TRUE, doc |-> doc]
NotJson == [kind |-> "json", wellFormed |-> FALSE, doc |-> [type |-> "none"]]
PolygonGeom(rings) ==
  [type |-> "Polygon", coordinates |-> [i \in 1..Len(rings) |-> coordsOf(rings[i])]]
MultiPolygonGeom(rings) ==
  [type |-> "MultiPolygon",
   coordinates |-> [i \in 1..Len(rings) |-> << coordsOf(rings[i]) >>]]
FeatureCollection(geoms) ==
  [type |-> "FeatureCollection", features |-> [i \in 1..Len(geoms) |-> [geometry |-> geoms[i]]]]
Feature(geom) == [type |-> "Feature", geometry |-> geom]

JsonContents ==
  {Json(FeatureCollection([i \in 1..Len(L) |-> PolygonGeom(<<L[i]>>)])) : L \in RingLists}
  \cup {Json(Feature(PolygonGeom(L))) : L \in RingLists}
  \cup {Json(MultiPolygonGeom(L)) : L \in RingLists}
  \cup { NotJson,
         Json(FeatureCollection(<<[type |-> "null"], [type |-> "Point"]>>)),
         Json(PolygonGeom(<<RingG1>>)),
         Json([type |-> "Polygon",
               coordinates |-> << Append(coordsOf(RingG1), BadPair),
                                  Append(coordsOf(RingShort), BadPair) >>]) }

HeaderLonLat == << TextCell(<<"l","o","n">>), TextCell(<<"l","a","t">>) >>
HeaderLatLong == << TextCell(<<" ","L","a","t","i","t","u","d","e">>),
                    TextCell(<<"L","O","N","G","_","I","T","U","D","E"," ">>) >>
HeaderIdXY == << TextCell(<<"i","d">>), TextCell(<<"X">>), TextCell(<<"Y">>) >>
HeaderOther == << TextCell(<<"e","a","s","t">>), TextCell(<<"n","o","r","t","h">>) >>

Table(lines) == [kind |-> "table", lines |-> lines]
rowsLonLat(ring) == [i \in 1..Len(ring) |-> << NumberCell(ring[i].x), NumberCell(ring[i].y) >>]
rowsLatLon(ring) == [i \in 1..Len(ring) |-> << NumberCell(ring[i].y), NumberCell(ring[i].x) >>]
rowsIdXY(ring) ==
  [i \in 1..Len(ring) |-> << TextCell(<<"p">>), NumberCell(ring[i].x), NumberCell(ring[i].y) >>]

TableContents ==
  {Table(<<HeaderLonLat>> \o rowsLonLat(R)) : R \in RingPool}
  \cup {Table(<<HeaderLatLong>> \o rowsLatLon(R)) : R \in RingPool}
  \cup {Table(<<HeaderIdXY>> \o rowsIdXY(R)) : R \in RingPool}
  \cup { Table(<<HeaderOther>> \o rowsLonLat(RingG1)),
         Table(<<HeaderLonLat>>),
         Table(<< <<BlankCell>>, HeaderLonLat, <<BlankCell>> >> \o rowsLonLat(RingG1)),
         Table(<<HeaderLonLat>> \o rowsLonLat(RingG1)
               \o << <<BlankCell, NumberCell(30 * Scale)>>,
                     <<TextCell(<<"n","/","a">>), NumberCell(0)>>,
                     <<NumberCell(0)>> >>),
         Table(<<HeaderLonLat>> \o rowsLonLat(RingShort)
               \o << <<TextCell(<<"n","/","a">>), NumberCell(0)>> >>) }

\* One polygon record whose parts are the rings.
partStarts(rings) ==
  LET s[i \in 1..Len(rings)] == IF i = 1 THEN 0 ELSE s[i - 1] + Len(rings[i - 1])
  IN [i \in 1..Len(rings) |-> s[i]]
ShpRecord(shapeType, rings) ==
  [shapeType |-> shapeType, parts |-> partStarts(rings), points |-> Flatten(rings)]
Shp(byteLength, fileCode, records) ==
  [kind |-> "shp", byteLength |-> byteLength, fileCode |-> fileCode, records |-> records]
ShpOf(rings) == Shp(100 + 8 + 44 + 4 * Len(rings) + 16 * Len(Flatten(rings)), 9994,
                    << ShpRecord(5, rings) >>)

ShpContents ==
  {ShpOf(L) : L \in RingLists}
  \cup { ShpOf(<<RingG1, RingEquator>>), ShpOf(<<RingPrimeMeridian, RingG1>>),
         Shp(50, 9994, <<>>),
         Shp(152, 1234, << ShpRecord(5, <<RingG1>>) >>),
         Shp(100, 9994, <<>>),
         Shp(200, 9994, << ShpRecord(1, <<RingG1>>) >>),
         Shp(200, 9994, << ShpRecord(15, <<RingG1>>), ShpRecord(25, <<RingG2r>>) >>),
         Shp(200, 9994, << [shapeType |-> 5, parts |-> <<3, 0>>, points |-> RingG1] >>) }

Dbf(fields, records) ==
  [kind |-> "dbf", fields |-> fields, records |-> records,
   headerLength |-> 33 + 32 * Len(fields),
   byteLength |-> 33 + 32 * Len(fields) + Len(records) * (1 + 12 * Len(fields))]
\* the first byteLength bytes of a .dbf
Truncated(dbf, byteLength) == [dbf EXCEPT !.byteLength = byteLength]
DbfRecord(deleted, values) == [deleted |-> deleted, values |-> values]
FieldsIdLonLat == << <<"I","D">>, <<"L","O","N">>, <<"L","A","T">> >>
DbfGood ==
  Dbf(FieldsIdLonLat,
      << DbfRecord(FALSE, <<NumberCell(1), NumberCell(-121 * Scale), NumberCell(37 * Scale)>>),
         DbfRecord(TRUE, <<NumberCell(2), NumberCell(10 * Scale), NumberCell(10 * Scale)>>),
         DbfRecord(FALSE, <<NumberCell(3), NumberCell(-120 * Scale), NumberCell(38 * Scale)>>) >>)
DbfNoColumns ==
  Dbf(<< <<"I","D">>, <<"N","A","M","E">> >>,
      << DbfRecord(FALSE, <<NumberCell(1), TextCell(<<"f">>)>>) >>)
DbfNoValid ==
  Dbf(FieldsIdLonLat,
      << DbfRecord(TRUE, <<NumberCell(1), NumberCell(-121 * Scale), NumberCell(37 * Scale)>>),
         DbfRecord(FALSE, <<NumberCell(2), TextCell(<<"n","/","a">>), NumberCell(37 * Scale)>>),
         DbfRecord(FALSE, <<NumberCell(3), NumberCell(200 * Scale), NumberCell(37 * Scale)>>) >>)
DbfContents == {DbfGood, DbfNoColumns, DbfNoValid}
\* records with a blank longitude or latitude field, next to a valid record
\* and on their own
DbfBlank ==
  Dbf(FieldsIdLonLat,
      << DbfRecord(FALSE, <<NumberCell(1), NumberCell(-121 * Scale), NumberCell(37 * Scale)>>),
         DbfRecord(FALSE, <<NumberCell(2), BlankCell, NumberCell(38 * Scale)>>) >>)
\* cut inside the first field descriptor; before the end of the header; inside
\* the last record; inside the 32 bytes that every .dbf starts with
DbfCutInDescriptor == Truncated(DbfGood, 40)
DbfCutInHeader == Truncated(DbfGood, 120)
DbfCutInRecord == Truncated(DbfGood, 33 + 96 + 3 * 37 - 1)
DbfCutShort == Truncated(DbfGood, 20)
DbfCuts == {DbfCutInDescriptor, DbfCutInHeader, DbfCutInRecord, DbfCutShort}
DbfOnlyBlank ==
  Dbf(FieldsIdLonLat, << DbfRecord(FALSE, <<NumberCell(1), BlankCell, BlankCell>>) >>)

Text(text) == [kind |-> "text", text |-> text]
PrjMeter == Text(<<"U","N","I","T","[","M","e","t","e","r","]">>)
PrjFoot == Text(<<"U","N","I","T","[","F","o","o","t","]">>)
PrjFootUS == Text(<<"U","N","I","T","[","F","o","o","t","_","U","S","]">>)
PrjDegree == Text(<<"U","N","I","T","[","D","e","g","r","e","e","]">>)
PrjContents == {PrjMeter, PrjFoot, PrjFootUS, PrjDegree}
\* descriptions of the US survey foot in other words
PrjUSFoot == Text(<<"U","N","I","T","[","U","S"," ","F","o","o","t","]">>)
PrjUsSurveyFoot == Text(<<"U","S"," ","s","u","r","v","e","y"," ","f","o","o","t">>)

\* An archive of a length with the occurrences of the end signature in it, and
\* the usual layout: 1000 bytes ending in the one end record, or in none.
Eocd(offset, entries) == [offset |-> offset, entries |-> entries]
ZipAt(byteLength, signatures) ==
  [kind |-> "zip", byteLength |-> byteLength, signatures |-> signatures]
Zip(hasEocd, entries) ==
  ZipAt(1000, IF hasEocd THEN << Eocd(1000 - EocdSize, entries) >> ELSE <<>>)
ZipEntry(name, compression, localSigOk, data) ==
  [name |-> name, compression |-> compression, localSigOk |-> localSigOk, data |-> data]
Name_a_shp == <<"a">> \o Ext_shp
Name_a_dbf == <<"a">> \o Ext_dbf
Name_a_prj == <<"a">> \o Ext_prj
Name_dir_A_SHP == <<"d","i","r","/","A",".","S","H","P">>
Name_b_dbf == <<"b">> \o Ext_dbf

\* a bundle of a.shp with, or without, a.dbf and a.prj
Bundle(shp, dbfs, prjs) ==
  Zip(TRUE, << ZipEntry(Name_a_shp, 8, TRUE, shp) >>
            \o [i \in 1..Len(dbfs) |-> ZipEntry(Name_a_dbf, 8, TRUE, dbfs[i])]
            \o [i \in 1..Len(prjs) |-> ZipEntry(Name_a_prj, 0, TRUE, prjs[i])])

\* Archives by the place of the end signature: buffers shorter than an end
\* record, the signature at the two ends of the searched window and just
\* outside them, and two occurrences with different directories.
DirG1 == << ZipEntry(Name_a_shp, 0, TRUE, ShpOf(<<RingG1>>)) >>
DirQuad == << ZipEntry(Name_a_shp, 0, TRUE, ShpOf(<<RingQuad>>)) >>
\* a.shp with an a.dbf whose local header signature is wrong, and a.shp after
\* a folder member
DirBadDbf == << ZipEntry(Name_a_shp, 0, TRUE, ShpOf(<<RingG1>>)),
                ZipEntry(Name_a_dbf, 0, FALSE, DbfNoValid) >>
DirFolder == << ZipEntry(<<"d","i","r","/">>, 0, TRUE, Text(<<>>)),
                ZipEntry(Name_a_shp, 0, TRUE, ShpOf(<<RingG1>>)) >>
\* a.prj with compression method 12 between readable members (one of them
\* stored under a folder, in upper case)
DirMixed == << ZipEntry(Name_b_dbf, 0, TRUE, DbfGood),
               ZipEntry(Name_a_prj, 12, TRUE, PrjDegree),
               ZipEntry(Name_dir_A_SHP, 8, TRUE, ShpOf(<<RingP1>>)),
               ZipEntry(Name_a_dbf, 0, TRUE, DbfGood) >>
ZipLayouts ==
  { ZipAt(0, <<>>),
    ZipAt(4, << Eocd(0, <<>>) >>),
    ZipAt(EocdSize - 1, << Eocd(0, <<>>) >>),
    ZipAt(EocdSize, << Eocd(0, <<>>) >>),
    ZipAt(1000, << Eocd(1000 - EocdSize + 1, DirG1) >>),
    ZipAt(1000, << Eocd(0, DirG1) >>),
    ZipAt(70000, << Eocd(70000 - EocdWindow, DirG1) >>),
    ZipAt(70000, << Eocd(70000 - EocdWindow - 1, DirG1) >>),
    ZipAt(1000, << Eocd(900, DirG1), Eocd(1000 - EocdSize, DirQuad) >>),
    ZipAt(1000, << Eocd(1000 - EocdSize, DirG1), Eocd(900, DirQuad) >>),
    ZipAt(1000, << Eocd(900, DirG1), Eocd(1000 - EocdSize + 1, DirQuad) >>),
    ZipAt(70000, << Eocd(70000 - EocdWindow - 1, DirG1), Eocd(60000, DirQuad) >>) }

ZipContents ==
  {Bundle(ShpOf(L), dbfs, prjs) :
     L \in BundleRingLists,
     dbfs \in SeqsUpTo(DbfContents, 1),
     prjs \in SeqsUpTo(PrjContents, 1)}
  \cup { Zip(FALSE, <<>>),
         Zip(TRUE, <<>>),
         Zip(TRUE, << ZipEntry(Name_a_dbf, 0, TRUE, DbfGood) >>),
         Zip(TRUE, << ZipEntry(Name_a_shp, 12, TRUE, ShpOf(<<RingG1>>)) >>),
         Zip(TRUE, << ZipEntry(Name_a_shp, 0, FALSE, ShpOf(<<RingG1>>)) >>),
         Zip(TRUE, << ZipEntry(Name_b_dbf, 0, TRUE, DbfGood),
                      ZipEntry(Name_dir_A_SHP, 0, TRUE, ShpOf(<<RingP1>>)),
                      ZipEntry(Name_a_dbf, 0, TRUE, DbfGood) >>),
         Zip(TRUE, << ZipEntry(Name_b_dbf, 0, TRUE, DbfGood),
                      ZipEntry(Name_a_shp, 0, TRUE, ShpOf(<<RingP1>>)) >>) }
  \cup ZipLayouts
  \cup { Zip(TRUE, DirBadDbf), Zip(TRUE, DirFolder), Zip(TRUE, DirMixed) }
  \cup {Bundle(ShpOf(<<RingP1>>), <<dbf>>, <<PrjMeter>>) : dbf \in {DbfBlank, DbfOnlyBlank}}
  \cup {Bundle(ShpOf(<<ring>>), <<dbf>>, prjs) :
           ring \in {RingSliver, RingP1}, dbf \in DbfCuts, prjs \in {<<>>, <<PrjMeter>>}}
  \cup {Bundle(ShpOf(<<RingPFeet>>), <<DbfGood>>, <<prj>>) :
          prj \in {PrjFoot, PrjFootUS, PrjUSFoot, PrjUsSurveyFoot}}

Other == [kind |-> "other"]

-----------------------------------------------------------------------------
(* Inputs: files *)

File(name, content) == [isFile |-> TRUE, name |-> name, content |-> content]
\* a form field that is missing, or is a string
NotAFile == [isFile |-> FALSE, name |-> <<>>, content |-> Other]

NamesJson == { <<"a">> \o Ext_geojson, <<"a",".","J","S","O","N">> }
NamesShp == { Name_a_shp }
NamesTable == { <<"a">> \o Ext_csv, <<"a">> \o Ext_tsv, <<"a">> \o Ext_txt }
NamesZip == { <<"A",".","Z","i","p">> }
NamesUnsupported == { <<"a",".","b","m","p">>, <<"z","i","p">> }
PolygonNames == NamesJson \cup NamesShp \cup NamesTable \cup NamesZip \cup NamesUnsupported

\* Contents that are uploaded under every name.
SampleContents ==
  { Json(PolygonGeom(<<RingG1>>)), NotJson,
    Table(<<HeaderLonLat>> \o rowsLonLat(RingG1)),
    ShpOf(<<RingG1>>), ShpOf(<<RingP1>>),
    Bundle(ShpOf(<<RingP1>>), <<DbfGood>>, <<PrjFoot>>),
    Bundle(ShpOf(<<RingG1>>), <<>>, <<>>),
    Zip(FALSE, <<>>), Other }

PolygonFiles ==
  {File(n, c) : n \in NamesJson, c \in JsonContents}
  \cup {File(n, c) : n \in NamesTable, c \in TableContents}
  \cup {File(n, c) : n \in NamesShp, c \in ShpContents}
  \cup {File(n, c) : n \in NamesZip, c \in ZipContents}
  \cup {File(n, c) : n \in PolygonNames, c \in SampleContents}

(* Raster buffers *)

Entry(tag, type, values) == [tag |-> tag, type |-> type, values |-> values]
Tiff(byteLength, marker, version, entries) ==
  [kind |-> "tiff", byteLength |-> byteLength, marker |-> marker, version |-> version,
   entries |-> entries]
Ints(values) == [i \in 1..Len(values) |-> RatInt(values[i])]

EntryWidth == Entry(256, 3, Ints(<<10>>))
EntryHeight == Entry(257, 4, Ints(<<20>>))
EntryScale == Entry(33550, 12, << Rat(1, 2), Rat(1, 2), RatInt(0) >>)
EntryTiePoint == Entry(33922, 12, Ints(<<0, 0, 0, -121, 37, 0>>))
EntryGeoKeys(unitCode) ==
  Entry(34735, 3, Ints(<<1, 1, 0, 2, 1024, 0, 1, 2, 3076, 0, 1, unitCode>>))
EntryTransform(n) ==
  Entry(34264, 12, [i \in 1..n |-> IF i = 1 THEN RatInt(2) ELSE IF i = 6 THEN RatInt(-2)
                                   ELSE RatInt(0)])

TiffBuffers ==
  { Tiff(1000, <<"I","I">>, <<42, 0>>, <<EntryWidth, EntryHeight, EntryScale>>),
    Tiff(1000, <<"M","M">>, <<0, 42>>,
         <<EntryWidth, EntryHeight, EntryScale, EntryTiePoint, EntryGeoKeys(9002)>>),
    Tiff(1000, <<"I","I">>, <<42, 0>>,
         <<EntryWidth, EntryHeight, EntryScale, EntryTiePoint, EntryGeoKeys(7777)>>),
    Tiff(1000, <<"I","I">>, <<42, 0>>, <<EntryWidth, EntryHeight, EntryTransform(16)>>),
    Tiff(4, <<"I","I">>, <<42, 0>>, <<>>),
    Tiff(1000, <<"X","X">>, <<42, 0>>, <<EntryWidth, EntryHeight, EntryScale>>),
    Tiff(1000, <<"M","M">>, <<42, 0>>, <<EntryWidth, EntryHeight, EntryScale>>),
    Tiff(1000, <<"I","I">>, <<42, 0>>, <<EntryHeight, EntryScale>>),
    Tiff(1000, <<"I","I">>, <<42, 0>>, <<Entry(256, 2, Ints(<<10>>)), EntryHeight, EntryScale>>),
    Tiff(1000, <<"I","I">>, <<42, 0>>, <<EntryWidth, EntryHeight, EntryTransform(6)>>) }

TiffNames == { <<"r",".","t","i","f">>, <<"R",".","T","I","F","F">>, <<"r",".","p","n","g">> }
TiffParts == {NotAFile} \cup {File(n, b) : n \in TiffNames, b \in TiffBuffers}
PolygonParts == {NotAFile} \cup {File(n, c) : n \in PolygonNames, c \in SampleContents}

Form(tiffFile, polygonFile) == [tiffFile |-> tiffFile, polygonFile |-> polygonFile]
Forms == {Form(t, p) : t \in TiffParts, p \in PolygonParts}

-----------------------------------------------------------------------------
(* The field-area request handler: src/app/api/field-area/route.ts *)

VARIABLES
  pc,        \* per request: where the handler is
  form,      \* per request: the parsed form
  tiff,      \* per request: what estimateAreaFromGeoTiff gave
  polygon,   \* per request: what parsePolygonUpload gave
  response,  \* per request: the response returned
  reads,     \* per request: the content reads awaited so far, in order
  upload,    \* a direct call of one estimator: the file it is given
  outcome    \* a direct call of one estimator: what it gave

vars == <<pc, form, tiff, polygon, response, reads, upload, outcome>>

RequestIds == {"r1", "r2"}

Ext_tif == <<".","t","i","f">>
Ext_tiff == <<".","t","i","f","f">>

NotRun == [ran |-> FALSE]
Ran(result) == [ran |-> TRUE, result |-> result]
NoForm == Form(NotAFile, NotAFile)
NoResponse == [sent |-> FALSE, status |-> 0, body |-> [error |-> ""]]
NoOutcome == [returned |-> FALSE, result |-> Throw(""), via |-> "none", read |-> "none"]
Returned(o) == [returned |-> TRUE, result |-> o.result, via |-> o.via, read |-> o.read]

ErrorResponse(message) == [sent |-> TRUE, status |-> 400, body |-> [error |-> message]]

SuccessBody(f, t, p) ==
  [chosenAreaAcres |-> p.areaAcres,
   chosenAreaSqMeters |-> p.areaSqMeters,
   centroid |-> [lat |-> p.centroidLat, lon |-> p.centroidLon],
   tiff |-> [fileName |-> f.tiffFile.name,
             areaAcres |-> t.areaAcres,
             areaSqMeters |-> t.areaSqMeters,
             width |-> t.width,
             height |-> t.height,
             pixelSizeX |-> t.pixelSizeX,
             pixelSizeY |-> t.pixelSizeY,
             units |-> t.units,
             warnings |-> t.warnings],
   polygon |-> [fileName |-> f.polygonFile.name,
                source |-> p.source,
                areaAcres |-> p.areaAcres,
                areaSqMeters |-> p.areaSqMeters,
                ringCount |-> p.ringCount,
                pointCount |-> p.pointCount]]
\* A variant of SuccessResponse in which the chosen area is the raster's.
SuccessResponseRasterChosen(f, t, p) ==
  [sent |-> TRUE, status |-> 200,
   body |-> [SuccessBody(f, t, p) EXCEPT
               !.chosenAreaSqMeters = Amount("0.01", t.areaSqMeters),
               !.chosenAreaAcres = Amount("0.01", t.areaAcres)]]

SuccessResponse(f, t, p) == [sent |-> TRUE, status |-> 200, body |-> SuccessBody(f, t, p)]

isTiffName(name) ==
  endsWith(toLowerCase(name), Ext_tif) \/ endsWith(toLowerCase(name), Ext_tiff)

Finish(r, resp) ==
  /\ response' = [response EXCEPT ![r] = resp]
  /\ pc' = [pc EXCEPT ![r] = "done"]

\* lines 13-15
RejectMissingTiff(r) ==
  /\ pc[r] = "start"
  /\ ~form[r].tiffFile.isFile
  /\ Finish(r, ErrorResponse("Missing TIFF file in form field 'tiffFile'."))
  /\ UNCHANGED <<form, tiff, polygon, reads, upload, outcome>>

\* lines 16-18
RejectMissingPolygon(r) ==
  /\ pc[r] = "start"
  /\ form[r].tiffFile.isFile
  /\ ~form[r].polygonFile.isFile
  /\ Finish(r, ErrorResponse("Missing polygon file in form field 'polygonFile'."))
  /\ UNCHANGED <<form, tiff, polygon, reads, upload, outcome>>

\* A variant of RejectTiffName in which the raster's name is looked at before
\* the polygon part.
RejectTiffNameFirst(r) ==
  /\ pc[r] = "start"
  /\ form[r].tiffFile.isFile
  /\ ~isTiffName(form[r].tiffFile.name)
  /\ Finish(r, ErrorResponse("TIFF input must be .tif or .tiff."))
  /\ UNCHANGED <<form, tiff, polygon, reads, upload, outcome>>

\* lines 20-23
RejectTiffName(r) ==
  /\ pc[r] = "start"
  /\ form[r].tiffFile.isFile
  /\ form[r].polygonFile.isFile
  /\ ~isTiffName(form[r].tiffFile.name)
  /\ Finish(r, ErrorResponse("TIFF input must be .tif or .tiff."))
  /\ UNCHANGED <<form, tiff, polygon, reads, upload, outcome>>

\* lines 13-25, up to the await of tiffFile.arrayBuffer()
AwaitTiffBytes(r) ==
  /\ pc[r] = "start"
  /\ form[r].tiffFile.isFile
  /\ form[r].polygonFile.isFile
  /\ isTiffName(form[r].tiffFile.name)
  /\ pc' = [pc EXCEPT ![r] = "tiff"]
  /\ reads' = [reads EXCEPT ![r] = Append(@, "tiffFile.arrayBuffer")]
  /\ UNCHANGED <<form, tiff, polygon, response, upload, outcome>>

\* A variant of TiffThrows in which the polygon estimator still runs, and its
\* message is the one reported when it fails too.
TiffThrowsThenPolygon(r) ==
  LET t == estimateAreaFromGeoTiff(form[r].tiffFile.content)
      o == parsePolygonUpload(form[r].polygonFile)
  IN /\ pc[r] = "tiff"
     /\ ~t.ok
     /\ tiff' = [tiff EXCEPT ![r] = Ran(t)]
     /\ Finish(r, ErrorResponse(IF o.result.ok THEN t.error ELSE o.result.error))
     /\ UNCHANGED <<form, polygon, reads, upload, outcome>>

\* line 25, the estimator throws: lines 55-58
TiffThrows(r) ==
  LET t == estimateAreaFromGeoTiff(form[r].tiffFile.content)
  IN /\ pc[r] = "tiff"
     /\ ~t.ok
     /\ tiff' = [tiff EXCEPT ![r] = Ran(t)]
     /\ Finish(r, ErrorResponse(t.error))
     /\ UNCHANGED <<form, polygon, reads, upload, outcome>>

\* A variant of TiffReturns in which the polygon file's bytes are read before
\* its name is looked at.
TiffReturnsReadingBytes(r) ==
  LET t == estimateAreaFromGeoTiff(form[r].tiffFile.content)
  IN /\ pc[r] = "tiff"
     /\ t.ok
     /\ tiff' = [tiff EXCEPT ![r] = Ran(t)]
     /\ pc' = [pc EXCEPT ![r] = "polygon"]
     /\ reads' = [reads EXCEPT ![r] = Append(@, "polygonFile.arrayBuffer")]
     /\ UNCHANGED <<form, polygon, response, upload, outcome>>

\* line 25, the estimator returns; line 26 up to the await inside
\* parsePolygonUpload (of file.text() or file.arrayBuffer()), when it has one
TiffReturns(r) ==
  LET t == estimateAreaFromGeoTiff(form[r].tiffFile.content)
      o == parsePolygonUpload(form[r].polygonFile)
  IN /\ pc[r] = "tiff"
     /\ t.ok
     /\ tiff' = [tiff EXCEPT ![r] = Ran(t)]
     /\ pc' = [pc EXCEPT ![r] = "polygon"]
     /\ reads' = [reads EXCEPT ![r] =
                    IF o.read = "none" THEN @
                    ELSE Append(@, IF o.read = "text" THEN "polygonFile.text"
                                   ELSE "polygonFile.arrayBuffer")]
     /\ UNCHANGED <<form, polygon, response, upload, outcome>>

\* A variant of PolygonThrows that reports the catch block's fallback message.
PolygonThrowsGeneric(r) ==
  LET o == parsePolygonUpload(form[r].polygonFile)
  IN /\ pc[r] = "polygon"
     /\ ~o.result.ok
     /\ polygon' = [polygon EXCEPT ![r] = Ran(o)]
     /\ Finish(r, ErrorResponse("Failed to process field files."))
     /\ UNCHANGED <<form, tiff, reads, upload, outcome>>

\* line 26, the estimator throws: lines 55-58
PolygonThrows(r) ==
  LET o == parsePolygonUpload(form[r].polygonFile)
  IN /\ pc[r] = "polygon"
     /\ ~o.result.ok
     /\ polygon' = [polygon EXCEPT ![r] = Ran(o)]
     /\ Finish(r, ErrorResponse(o.result.error))
     /\ UNCHANGED <<form, tiff, reads, upload, outcome>>

\* A variant of PolygonReturns in which the raster result is kept in one place
\* for all requests: the one reported is that of the other request when it has
\* one.
PolygonReturnsSharedTiff(r) ==
  LET o == parsePolygonUpload(form[r].polygonFile)
      other == CHOOSE q \in RequestIds : q # r
      t == IF tiff[other].ran /\ tiff[other].result.ok THEN tiff[other].result
           ELSE tiff[r].result
  IN /\ pc[r] = "polygon"
     /\ o.result.ok
     /\ polygon' = [polygon EXCEPT ![r] = Ran(o)]
     /\ Finish(r, SuccessResponse(form[r], t, o.result))
     /\ UNCHANGED <<form, tiff, reads, upload, outcome>>

\* line 26, the estimator returns: lines 28-54
PolygonReturns(r) ==
  LET o == parsePolygonUpload(form[r].polygonFile)
  IN /\ pc[r] = "polygon"
     /\ o.result.ok
     /\ polygon' = [polygon EXCEPT ![r] = Ran(o)]
     /\ Finish(r, SuccessResponse(form[r], tiff[r].result, o.result))
     /\ UNCHANGED <<form, tiff, reads, upload, outcome>>

Idle(f) == [r \in RequestIds |-> f]

Init ==
  /\ \E f \in Forms : form = [r \in RequestIds |-> IF r = "r1" THEN f ELSE NoForm]
  /\ pc = [r \in RequestIds |-> IF r = "r1" THEN "start" ELSE "idle"]
  /\ tiff = Idle(NotRun)
  /\ polygon = Idle(NotRun)
  /\ response = Idle(NoResponse)
  /\ reads = Idle(<<>>)
  /\ upload = NotAFile
  /\ outcome = NoOutcome

Next ==
  \E r \in RequestIds :
    \/ RejectMissingTiff(r)
    \/ RejectMissingPolygon(r)
    \/ RejectTiffName(r)
    \/ AwaitTiffBytes(r)
    \/ TiffThrows(r)
    \/ TiffReturns(r)
    \/ PolygonThrows(r)
    \/ PolygonReturns(r)

Spec == Init /\ [][Next]_vars

-----------------------------------------------------------------------------
(* parsePolygonUpload called on its own: src/lib/polygonFile.ts 415-445 *)

Call(via) ==
  LET o == parsePolygonUpload(upload)
  IN /\ ~outcome.returned
     /\ o.via = via
     /\ outcome' = Returned(o)
     /\ UNCHANGED <<pc, form, tiff, polygon, response, reads, upload>>

\* lines 418-420
CallGeoJson == Call("parseGeoJsonText")
\* lines 422-424
CallShp == Call("parseShpWithContext")
\* lines 426-428
CallTable == Call("parseLonLatTable")
\* lines 430-442
CallZip == Call("parseZipEntries")
\* line 444
CallUnsupported == Call("none")

InitPoly ==
  /\ upload \in PolygonFiles
  /\ outcome = NoOutcome
  /\ form = Idle(NoForm)
  /\ pc = Idle("idle")
  /\ tiff = Idle(NotRun)
  /\ polygon = Idle(NotRun)
  /\ response = Idle(NoResponse)
  /\ reads = Idle(<<>>)

NextPoly == CallGeoJson \/ CallShp \/ CallTable \/ CallZip \/ CallUnsupported

SpecPoly == InitPoly /\ [][NextPoly]_vars

-----------------------------------------------------------------------------
(* Properties of the field-area request (under Spec) *)

\* The request got past lines 13-23: both parts are files, the raster is named
\* .tif or .tiff.
Admitted(r) ==
  /\ pc[r] # "idle"
  /\ form[r].tiffFile.isFile
  /\ form[r].polygonFile.isFile
  /\ isTiffName(form[r].tiffFile.name)

RasterOf(r) == estimateAreaFromGeoTiff(form[r].tiffFile.content)
PolygonOf(r) == parsePolygonUpload(form[r].polygonFile).result

\* The error messages of the estimators that fail on the files of request r.
FailuresOf(r) ==
  {RasterOf(r).error : i \in {j \in {1} : ~RasterOf(r).ok}}
  \cup {PolygonOf(r).error : i \in {j \in {1} : ~PolygonOf(r).ok}}

\* C1: once an admitted request has finished, if the raster estimator or the
\* polygon estimator fails on its file, the response has status 400 and its
\* body is nothing but the error message of an estimator that failed (no
\* chosen area, no centroid, no sub-result); the response is a success only if
\* both estimators succeed on their files.
C1_FailureSurfacedVerbatim ==
  \A r \in RequestIds :
    (Admitted(r) /\ pc[r] = "done") =>
      /\ FailuresOf(r) # {} => \E m \in FailuresOf(r) : response[r] = ErrorResponse(m)
      /\ response[r].status = 200 => (RasterOf(r).ok /\ PolygonOf(r).ok)

\* A finished request whose raster was estimated and whose polygon file failed
\* to parse, answered with the polygon estimator's message.
C1_Witness ==
  \E r \in RequestIds :
    /\ Admitted(r) /\ pc[r] = "done"
    /\ RasterOf(r).ok /\ ~PolygonOf(r).ok
    /\ polygon[r].ran
    /\ response[r] = ErrorResponse(
         "Polygon is projected. Add longitude/latitude columns in DBF or use WGS84 geometry.")

\* C2: in every success response the chosen area (acres and square meters) and
\* the centroid are the polygon result's areaAcres, areaSqMeters, centroidLat
\* and centroidLon: they are a function of the polygon file alone.
C2_ChosenIsPolygon ==
  \A r \in RequestIds :
    (response[r].sent /\ response[r].status = 200) =>
      /\ response[r].body.chosenAreaAcres = PolygonOf(r).areaAcres
      /\ response[r].body.chosenAreaSqMeters = PolygonOf(r).areaSqMeters
      /\ response[r].body.centroid.lat = PolygonOf(r).centroidLat
      /\ response[r].body.centroid.lon = PolygonOf(r).centroidLon

\* A success response for a raster that has a centroid and a warning of its own.
C2_Witness ==
  \E r \in RequestIds :
    /\ response[r].sent /\ response[r].status = 200
    /\ tiff[r].ran /\ tiff[r].result.centroid.present
    /\ response[r].body.tiff.warnings # <<>>
    /\ response[r].body.polygon.source = "zip-shp"

\* Lines 25-58 with the two estimators evaluated in the given order: the first
\* one that throws ends the request with its message.
OutcomeInOrder(f, first) ==
  LET t == estimateAreaFromGeoTiff(f.tiffFile.content)
      p == parsePolygonUpload(f.polygonFile).result
  IN IF first = "raster"
     THEN (IF ~t.ok THEN ErrorResponse(t.error)
           ELSE IF ~p.ok THEN ErrorResponse(p.error)
           ELSE SuccessResponse(f, t, p))
     ELSE (IF ~p.ok THEN ErrorResponse(p.error)
           ELSE IF ~t.ok THEN ErrorResponse(t.error)
           ELSE SuccessResponse(f, t, p))

\* C3 as stated: the response of a finished, admitted request is also the
\* outcome of evaluating the polygon estimator before the raster estimator,
\* whatever the two files are (both estimators failing included).
C3_AnyOrderSameOutcome ==
  \A r \in RequestIds :
    (Admitted(r) /\ pc[r] = "done") => response[r] = OutcomeInOrder(form[r], "polygon")

\* C3, amended: the response of a finished, admitted request is the outcome of
\* either evaluation order unless both estimators fail on their files; when
\* both fail, the response carries the raster estimator's message, the
\* estimator that line 25 evaluates first.
C3_OrderMattersOnlyWhenBothFail ==
  \A r \in RequestIds :
    (Admitted(r) /\ pc[r] = "done") =>
      IF ~RasterOf(r).ok /\ ~PolygonOf(r).ok
      THEN response[r] = ErrorResponse(RasterOf(r).error)
      ELSE /\ response[r] = OutcomeInOrder(form[r], "polygon")
           /\ response[r] = OutcomeInOrder(form[r], "raster")

\* A finished request on which both estimators fail, with different messages.
C3_Witness ==
  \E r \in RequestIds :
    /\ Admitted(r) /\ pc[r] = "done"
    /\ ~RasterOf(r).ok /\ ~PolygonOf(r).ok
    /\ RasterOf(r).error # PolygonOf(r).error
    /\ response[r] = ErrorResponse(RasterOf(r).error)

UnsupportedMessage ==
  "Unsupported polygon file type. Use .zip, .shp, .geojson, .json, .csv, .tsv, or .txt."

\* The lowercased name ends in none of the seven accepted suffixes.
UnsupportedName(name) ==
  \A ext \in {Ext_geojson, Ext_json, Ext_shp, Ext_csv, Ext_tsv, Ext_txt, Ext_zip} :
    ~endsWith(toLowerCase(name), ext)

\* C4 as stated: an admitted request whose polygon name has no accepted suffix
\* finishes with the 'Unsupported polygon file type' error, and by then no
\* content of an uploaded file has been read or parsed.
C4_UnsupportedBeforeAnyParsing ==
  \A r \in RequestIds :
    (Admitted(r) /\ pc[r] = "done" /\ UnsupportedName(form[r].polygonFile.name)) =>
      /\ response[r] = ErrorResponse(UnsupportedMessage)
      /\ reads[r] = <<>>
      /\ ~tiff[r].ran

\* C4, amended: an admitted request whose polygon name has no accepted suffix
\* finishes with an error, and the polygon file's text and bytes are never
\* read; the raster's bytes have been read and parsed by then, and the error is
\* the 'Unsupported polygon file type' message when the raster estimator
\* succeeded and the raster estimator's message when it failed.
C4_UnsupportedAfterRasterOnly ==
  \A r \in RequestIds :
    (Admitted(r) /\ pc[r] = "done" /\ UnsupportedName(form[r].polygonFile.name)) =>
      /\ reads[r] = <<"tiffFile.arrayBuffer">>
      /\ tiff[r].ran
      /\ response[r] = IF RasterOf(r).ok THEN ErrorResponse(UnsupportedMessage)
                       ELSE ErrorResponse(RasterOf(r).error)

\* A request with a .bmp polygon upload that failed as unsupported after the
\* raster had been estimated.
C4_Witness ==
  \E r \in RequestIds :
    /\ Admitted(r) /\ pc[r] = "done"
    /\ form[r].polygonFile.name = <<"a",".","b","m","p">>
    /\ tiff[r].ran /\ tiff[r].result.ok
    /\ polygon[r].ran /\ polygon[r].result.read = "none"
    /\ response[r] = ErrorResponse(UnsupportedMessage)

-----------------------------------------------------------------------------
(* Properties of parsePolygonUpload (under SpecPoly) *)

InRange(p) ==
  /\ p.x >= -180 * Scale /\ p.x <= 180 * Scale
  /\ p.y >= -90 * Scale /\ p.y <= 90 * Scale
HasPointOutside(rings) == \E i \in 1..Len(rings) : \E j \in 1..Len(rings[i]) : ~InRange(rings[i][j])

\* The three geometry-text documents and the three tables made of given rings.
JsonOf(L) ==
  { Json(FeatureCollection([i \in 1..Len(L) |-> PolygonGeom(<<L[i]>>)])),
    Json(Feature(PolygonGeom(L))),
    Json(MultiPolygonGeom(L)) }
TablesOf(R) ==
  { Table(<<HeaderLonLat>> \o rowsLonLat(R)),
    Table(<<HeaderLatLong>> \o rowsLatLon(R)),
    Table(<<HeaderIdXY>> \o rowsIdXY(R)) }

\* C5 as stated: every result parsePolygonUpload returns reports
\* areaSqMeters > 0 (the value after rounding to 2 decimals).
C5_ReportedAreaPositive ==
  (outcome.returned /\ outcome.result.ok) => outcome.result.areaSqMeters.v > 0

\* The uploads with a point outside [-180,180] x [-90,90] and no companion
\* centroid: not a bundle, or a bundle with no .dbf for the .shp, a .dbf
\* without longitude/latitude columns, or a .dbf with no valid record.
C6_Files ==
  {File(n, c) : n \in NamesJson,
                c \in UNION {JsonOf(L) : L \in {K \in RingLists : HasPointOutside(K)}}}
  \cup {File(n, ShpOf(L)) : n \in NamesShp, L \in {K \in RingLists : HasPointOutside(K)}}
  \cup {File(n, c) : n \in NamesTable,
                     c \in UNION {TablesOf(R) : R \in {Q \in RingPool : HasPointOutside(<<Q>>)}}}
  \cup {File(n, Bundle(ShpOf(L), dbfs, prjs)) :
          n \in NamesZip,
          L \in {K \in BundleRingLists : HasPointOutside(K)},
          dbfs \in {<<>>, <<DbfNoColumns>>, <<DbfNoValid>>},
          prjs \in SeqsUpTo(PrjContents, 1)}
  \cup {File(n, Zip(TRUE, << ZipEntry(Name_b_dbf, 0, TRUE, DbfGood),
                             ZipEntry(Name_a_shp, 0, TRUE, ShpOf(<<RingP1>>)) >>)) :
          n \in NamesZip}

ZeroAreaRings == {RingDiagonal, RingMeridian, RingDup, RingPLine}
C7_Files ==
  {File(n, c) : n \in NamesJson, c \in UNION {JsonOf(<<R>>) : R \in ZeroAreaRings}}
  \cup {File(n, ShpOf(<<R>>)) : n \in NamesShp, R \in ZeroAreaRings}
  \cup {File(n, c) : n \in NamesTable, c \in UNION {TablesOf(R) : R \in ZeroAreaRings}}
  \cup {File(n, Bundle(ShpOf(<<R>>), dbfs, prjs)) :
          n \in NamesZip,
          R \in ZeroAreaRings \cap BundleRingPool,
          dbfs \in SeqsUpTo(DbfContents, 1),
          prjs \in SeqsUpTo(PrjContents, 1)}

\* C7 as stated: for an upload whose only ring is collinear or one point
\* repeated, in degrees or in projected coordinates, parsePolygonUpload throws.
C7_ZeroAreaRingFails ==
  (upload \in C7_Files /\ outcome.returned) => ~outcome.result.ok

\* C8 as stated: every result parsePolygonUpload returns has centroidLat in
\* [-90, 90] and centroidLon in [-180, 180] (in millionths of a degree here).
C8_CentroidInRange ==
  (outcome.returned /\ outcome.result.ok) =>
    /\ outcome.result.centroidLat >= -90 * 1000000
    /\ outcome.result.centroidLat <= 90 * 1000000
    /\ outcome.result.centroidLon >= -180 * 1000000
    /\ outcome.result.centroidLon <= 180 * 1000000

\* C9: every result parsePolygonUpload returns has ringCount >= 1 and
\* pointCount >= 3 * ringCount: the rings of fewer than 3 points are dropped
\* before they are counted, and an input left with no ring is rejected.
C9_CountsOfKeptRings ==
  (outcome.returned /\ outcome.result.ok) =>
    /\ outcome.result.ringCount >= 1
    /\ outcome.result.pointCount >= 3 * outcome.result.ringCount

\* A polygon of a triangle and a ring of two points: one ring is counted.
C9_Witness ==
  /\ upload.content = Json(Feature(PolygonGeom(<<RingG1, RingShort>>)))
  /\ outcome.returned
  /\ outcome.result.ok
  /\ outcome.result.ringCount = 1
  /\ outcome.result.pointCount = 3

\* The sub-parser and the source tag that go with a file name.
ParserOfName(name) ==
  IF name \in NamesJson THEN "parseGeoJsonText"
  ELSE IF name \in NamesShp THEN "parseShpWithContext"
  ELSE IF name \in NamesTable THEN "parseLonLatTable"
  ELSE IF name \in NamesZip THEN "parseZipEntries"
  ELSE "none"
SourceOfParser(via) ==
  CASE via = "parseGeoJsonText" -> "geojson"
    [] via = "parseShpWithContext" -> "shp"
    [] via = "parseLonLatTable" -> "table"
    [] via = "parseZipEntries" -> "zip-shp"
    [] OTHER -> "none"

\* C10: the sub-parser parsePolygonUpload runs is the one that goes with the
\* suffix of the file name, in any letter case and whatever the content is, and
\* a returned result carries that parser's source tag.
C10_ParserBySuffixOnly ==
  outcome.returned =>
    /\ outcome.via = ParserOfName(upload.name)
    /\ outcome.result.ok => outcome.result.source = SourceOfParser(outcome.via)

\* An archive uploaded under an upper-case .JSON name, given to the
\* geometry-text parser.
C10_Witness ==
  /\ upload.name = <<"a",".","J","S","O","N">>
  /\ upload.content.kind = "zip"
  /\ outcome.returned
  /\ outcome.via = "parseGeoJsonText"
  /\ ~outcome.result.ok

\* The bundles of a.shp with points out of range, a.dbf with LON/LAT columns
\* and a.prj saying "Foot", by the rings of the .shp.
C11_Lists == {L \in BundleRingLists : HasPointOutside(L)}
C11_Bundle(L) == Bundle(ShpOf(L), <<DbfGood>>, <<PrjFoot>>)

\* The mean of the longitudes (column 2) and latitudes (column 3) of the
\* records of a .dbf that are not deleted and hold a pair of numbers in range.
C11_ValidPairs(dbf) ==
  SelectSeq(dbf.records,
            LAMBDA rec : /\ ~rec.deleted
                         /\ rec.values[2].kind = "number" /\ rec.values[3].kind = "number"
                         /\ InRange(XY(rec.values[2].v, rec.values[3].v)))
C11_Mean(dbf, column) ==
  LET pairs == C11_ValidPairs(dbf)
      sum[i \in 0..Len(pairs)] == IF i = 0 THEN 0 ELSE sum[i - 1] + pairs[i].values[column].v
  IN Rat(sum[Len(pairs)], Len(pairs) * Scale)

\* Twice the planar shoelace area of the rings, in squared model units.
C11_NativeTwiceArea(L) ==
  LET sum[i \in 0..Len(L)] == IF i = 0 THEN 0 ELSE sum[i - 1] + ringPlanarSignedArea(L[i])
  IN Abs(sum[Len(L)])

C12_Rings == {R \in GeographicRings : Len(R) >= 3 /\ ringGeodesicSignedAreaSqMeters(R) # 0}

\* C12 as stated: for a FeatureCollection of two single-ring Polygon features
\* in geographic degrees, whatever the winding of each ring, a result is
\* returned with ringCount 2 and an area that is the sum of the absolute
\* geodesic areas of the two rings.
C12_AreaIsSumOfAbsoluteAreas ==
  \A R1 \in C12_Rings : \A R2 \in C12_Rings :
    (/\ upload.name \in NamesJson
     /\ upload.content = Json(FeatureCollection(<<PolygonGeom(<<R1>>), PolygonGeom(<<R2>>)>>))
     /\ outcome.returned) =>
      /\ outcome.result.ok
      /\ outcome.result.ringCount = 2
      /\ outcome.result.areaSqMeters =
           Amount("geodesic", Abs(ringGeodesicSignedAreaSqMeters(R1))
                              + Abs(ringGeodesicSignedAreaSqMeters(R2)))

-----------------------------------------------------------------------------
(* estimateAreaFromGeoTiff called on its own: src/unnamed/part_005 256-337 *)

\* Each tag of the first directory is absent or has one of a few entries.
WidthEntries ==
  { <<>>, <<EntryWidth>>,
    << Entry(256, 3, Ints(<<0>>)) >>,
    << Entry(256, 2, Ints(<<49, 48>>)) >>,
    << Entry(256, 5, << Rat(21, 2) >>) >>,
    << Entry(256, 12, Ints(<<-10>>)) >> }
HeightEntries == { <<>>, <<EntryHeight>>, << Entry(257, 3, Ints(<<0>>)) >> }
ScaleEntries ==
  { <<>>, <<EntryScale>>,
    << Entry(33550, 12, << RatInt(-2), RatInt(2), RatInt(0) >>) >>,
    << Entry(33550, 12, << RatInt(0), Rat(1, 2), RatInt(0) >>) >> }
\* a scale below 0.00005 per pixel (used with meters only)
EntryFineScale == Entry(33550, 12, << Rat(1, 25000), RatInt(2), RatInt(0) >>)
TransformEntries ==
  { <<>>, <<EntryTransform(6)>>, <<EntryTransform(15)>>, <<EntryTransform(16)>>,
    << Entry(34264, 12, [i \in 1..16 |-> IF i = 1 THEN RatInt(2) ELSE RatInt(0)]) >> }
GeoKeyEntries ==
  { <<>>, <<EntryGeoKeys(9001)>>, <<EntryGeoKeys(9002)>>, <<EntryGeoKeys(9003)>>,
    <<EntryGeoKeys(7777)>>, <<EntryGeoKeys(0)>>,
    << Entry(34735, 3, Ints(<<1, 1, 0, 2, 3076, 34736, 1, 9002, 1024, 0, 1, 2>>)) >> }
TiePointEntries == { <<>>, <<EntryTiePoint>> }

GoodHeaders == { [marker |-> <<"I","I">>, version |-> <<42, 0>>],
                 [marker |-> <<"M","M">>, version |-> <<0, 42>>] }
Headers ==
  GoodHeaders
  \cup { [marker |-> <<"I","I">>, version |-> <<0, 42>>],
         [marker |-> <<"M","M">>, version |-> <<42, 0>>],
         [marker |-> <<"I","I">>, version |-> <<43, 0>>],
         [marker |-> <<"X","X">>, version |-> <<42, 0>>],
         [marker |-> <<"I","M">>, version |-> <<42, 0>>] }

\* Entries that decide the centroid: the model type (2, 1, or 2 stored in
\* another tag), the tie point (5 elements; latitudes that put the center at
\* 90 and at 91 degrees) and the scale (1 element, undecoded text).
CentroidGeoKeyEntries ==
  { <<>>, <<EntryGeoKeys(9001)>>,
    << Entry(34735, 3, Ints(<<1, 1, 0, 1, 1024, 0, 1, 1>>)) >>,
    << Entry(34735, 3, Ints(<<1, 1, 0, 1, 1024, 34736, 1, 2>>)) >> }
CentroidTiePointEntries ==
  { <<>>, <<EntryTiePoint>>,
    << Entry(33922, 12, Ints(<<0, 0, 0, -121, 37>>)) >>,
    << Entry(33922, 12, Ints(<<0, 0, 0, -121, 95, 0>>)) >>,
    << Entry(33922, 12, Ints(<<0, 0, 0, -121, 96, 0>>)) >>,
    << Entry(33922, 12, Ints(<<2, 4, 0, 176, 37, 0>>)) >> }
CentroidScaleEntries ==
  { <<>>, <<EntryScale>>,
    << Entry(33550, 12, << RatInt(-2), RatInt(2), RatInt(0) >>) >>,
    << Entry(33550, 12, << Rat(1, 2) >>) >>,
    << Entry(33550, 2, << Rat(1, 2), Rat(1, 2), RatInt(0) >>) >> }

RasterBuffers ==
  {Tiff(1000, h.marker, h.version, w \o ht \o sc \o tr \o gk \o tp) :
     h \in GoodHeaders, w \in WidthEntries, ht \in HeightEntries, sc \in ScaleEntries,
     tr \in TransformEntries, gk \in GeoKeyEntries, tp \in TiePointEntries}
  \cup {Tiff(1000, h.marker, h.version, w \o ht \o <<EntryFineScale>> \o tr \o gk \o tp) :
          h \in GoodHeaders, w \in WidthEntries, ht \in HeightEntries,
          tr \in TransformEntries, gk \in { <<>>, <<EntryGeoKeys(9001)>>, <<EntryGeoKeys(7777)>> },
          tp \in TiePointEntries}
  \cup {Tiff(1000, h.marker, h.version, <<EntryWidth, EntryHeight>> \o sc \o tr \o gk \o tp) :
          h \in GoodHeaders, sc \in CentroidScaleEntries,
          tr \in { <<>>, <<EntryTransform(16)>> },
          gk \in CentroidGeoKeyEntries, tp \in CentroidTiePointEntries}
  \cup {Tiff(n, h.marker, h.version, e) :
          n \in {0, 7, 8, 1000}, h \in Headers,
          e \in { <<>>, <<EntryHeight, EntryScale>>, <<EntryWidth, EntryHeight, EntryScale>> }}

Estimate ==
  /\ ~outcome.returned
  /\ upload.content.kind = "tiff"
  /\ outcome' = [returned |-> TRUE,
                 result |-> estimateAreaFromGeoTiff(upload.content),
                 via |-> "estimateAreaFromGeoTiff",
                 read |-> "none"]
  /\ UNCHANGED <<pc, form, tiff, polygon, response, reads, upload>>

\* the call throws: lines 258, 261-263, 266, 274 and 275, 286
EstimateThrows == Estimate /\ ~outcome'.result.ok
\* the call returns: lines 327-337
EstimateReturns == Estimate /\ outcome'.result.ok

InitTiff ==
  /\ \E b \in RasterBuffers : upload = File(<<"r",".","t","i","f">>, b)
  /\ outcome = NoOutcome
  /\ form = Idle(NoForm)
  /\ pc = Idle("idle")
  /\ tiff = Idle(NotRun)
  /\ polygon = Idle(NotRun)
  /\ response = Idle(NoResponse)
  /\ reads = Idle(<<>>)

NextTiff == EstimateThrows \/ EstimateReturns

SpecTiff == InitTiff /\ [][NextTiff]_vars

-----------------------------------------------------------------------------
(* Properties of estimateAreaFromGeoTiff (under SpecTiff) *)

\* The entry of the first directory with a tag (each buffer of the pool has at
\* most one), and its first stored value.
HasTag(buf, tag) == \E i \in 1..Len(buf.entries) : buf.entries[i].tag = tag
TagEntry(buf, tag) == buf.entries[CHOOSE i \in 1..Len(buf.entries) : buf.entries[i].tag = tag]
TagIsZero(buf, tag) ==
  /\ HasTag(buf, tag)
  /\ TagEntry(buf, tag).values # <<>>
  /\ TagEntry(buf, tag).values[1] = RatInt(0)

\* The header is at least 8 bytes, with marker II or MM and version 42 in the
\* marker's byte order.
HeaderLongEnough(buf) == buf.byteLength >= 8
HeaderMarkerKnown(buf) == buf.marker \in {<<"I","I">>, <<"M","M">>}
HeaderVersionIs42(buf) ==
  \/ buf.marker = <<"I","I">> /\ buf.version = <<42, 0>>
  \/ buf.marker = <<"M","M">> /\ buf.version = <<0, 42>>

\* C13: estimateAreaFromGeoTiff throws for a buffer shorter than 8 bytes, for
\* a marker other than II and MM, for a version other than 42 in the marker's
\* byte order, and for a first directory without tag 256 or 257 or with value
\* 0 for one of them; the three header errors are the ones reported whatever
\* the directory holds.
C13_HeaderAndSizeFailures ==
  outcome.returned =>
    LET buf == upload.content
    IN /\ ~HeaderLongEnough(buf) => outcome.result = Throw("Invalid TIFF: file too small.")
       /\ (HeaderLongEnough(buf) /\ ~HeaderMarkerKnown(buf))
            => outcome.result = Throw("Invalid TIFF byte order.")
       /\ (HeaderLongEnough(buf) /\ HeaderMarkerKnown(buf) /\ ~HeaderVersionIs42(buf))
            => outcome.result = Throw("Unsupported TIFF format.")
       /\ (\/ ~HasTag(buf, 256) \/ ~HasTag(buf, 257)
           \/ TagIsZero(buf, 256) \/ TagIsZero(buf, 257))
            => ~outcome.result.ok

\* A big-endian buffer whose version field reads 42 only in little-endian
\* order and whose directory has no width tag: the version error is reported.
C13_Witness ==
  /\ upload.content = Tiff(1000, <<"M","M">>, <<42, 0>>, <<EntryHeight, EntryScale>>)
  /\ outcome.returned
  /\ outcome.result = Throw("Unsupported TIFF format.")

\* The first decoded value of a tag (0 when the tag is absent, has no decoding
\* branch or holds no value), and whether the checks before the pixel scale
\* pass: the header and a non-zero width and height.
DecodedTypes == {1, 3, 4, 5, 12}
DecodedValues(buf, tag) ==
  IF HasTag(buf, tag) /\ TagEntry(buf, tag).type \in DecodedTypes
  THEN TagEntry(buf, tag).values ELSE <<>>
FirstValue(buf, tag) ==
  IF DecodedValues(buf, tag) = <<>> THEN RatInt(0) ELSE DecodedValues(buf, tag)[1]
PassesSizeChecks(buf) ==
  /\ HeaderLongEnough(buf) /\ HeaderMarkerKnown(buf) /\ HeaderVersionIs42(buf)
  /\ HasTag(buf, 256) /\ HasTag(buf, 257)
  /\ FirstValue(buf, 256).n # 0 /\ FirstValue(buf, 257).n # 0

\* A scale tag whose X and Y values are both non-zero.
ScaleUsable(buf) ==
  /\ Len(DecodedValues(buf, 33550)) >= 2
  /\ DecodedValues(buf, 33550)[1].n # 0
  /\ DecodedValues(buf, 33550)[2].n # 0
\* A transform tag of at least minLen elements (with its first and sixth
\* elements non-zero, when nonZero is asked for).
TransformUsable(buf, minLen, nonZero) ==
  /\ Len(DecodedValues(buf, 34264)) >= minLen
  /\ nonZero => /\ DecodedValues(buf, 34264)[1].n # 0
                /\ DecodedValues(buf, 34264)[6].n # 0

MissingScale == Throw("GeoTIFF missing pixel scale metadata.")

\* The statement about the fallback, for a given least length of the transform.
C14_Statement(minLen, nonZero) ==
  outcome.returned =>
    LET buf == upload.content
        t == DecodedValues(buf, 34264)
    IN /\ outcome.result = MissingScale
            => ~ScaleUsable(buf) /\ ~TransformUsable(buf, minLen, nonZero)
       /\ (PassesSizeChecks(buf) /\ ~HasTag(buf, 33550)
           /\ TransformUsable(buf, minLen, nonZero))
            => /\ outcome.result.ok
               /\ outcome.result.pixelSizeX = RoundDecimals(RatAbs(t[1]), 4)
               /\ outcome.result.pixelSizeY = RoundDecimals(RatAbs(t[6]), 4)

\* C14 (as stated): the missing-scale failure happens only when there is
\* neither a usable scale tag nor a transform tag of 6 or more elements, and a
\* raster without scale tag and with a transform of at least 6 elements is
\* accepted with the absolute first and sixth elements as pixel sizes.
C14_SixElementTransformAccepted == C14_Statement(6, FALSE)

\* C14 (amended): the same with a transform of 16 or more elements whose first
\* and sixth elements are non-zero: the missing-scale failure happens only
\* without a usable scale tag and without such a transform, and a raster
\* without scale tag and with such a transform is accepted with the absolute
\* first and sixth elements as pixel sizes.
C14_SixteenElementTransformAccepted == C14_Statement(16, TRUE)

\* A raster without scale tag and with a 16-element transform is accepted
\* with pixel sizes |2| and |-2|.
C14_Witness ==
  /\ upload.content = Tiff(1000, <<"I","I">>, <<42, 0>>,
                           <<EntryWidth, EntryHeight, EntryTransform(16)>>)
  /\ outcome.returned
  /\ outcome.result.ok
  /\ outcome.result.pixelSizeX = RoundDecimals(RatInt(2), 4)
  /\ outcome.result.pixelSizeY = RoundDecimals(RatInt(2), 4)

\* What a buffer that passes the size checks says about its pixels: the pixel
\* sizes (those of the scale tag when both are non-zero, else the first and
\* sixth elements of a 16-element transform), whether there are any, the
\* inline linear-unit code and the unit factor.
HasPixelSizes(buf) == ScaleUsable(buf) \/ TransformUsable(buf, 16, TRUE)
PixelSizeOf(buf, axis) ==
  IF ScaleUsable(buf) THEN RatAbs(DecodedValues(buf, 33550)[axis])
  ELSE RatAbs(DecodedValues(buf, 34264)[IF axis = 1 THEN 1 ELSE 6])
UnitCodes == {0, 7777, 9001, 9002, 9003}
InlineUnitCode(buf, v) == HasTag(buf, 34735) /\ TagEntry(buf, 34735) = EntryGeoKeys(v)
UnitFactorOf(buf) ==
  IF InlineUnitCode(buf, 9002) THEN Rat(381, 1250)
  ELSE IF InlineUnitCode(buf, 9003) THEN Rat(1200, 3937)
  ELSE RatInt(1)
\* w * h * (sx * f) * (sy * f), unrounded
ExpectedArea(buf, f) ==
  RatMul(RatMul(FirstValue(buf, 256), FirstValue(buf, 257)),
         RatMul(RatMul(PixelSizeOf(buf, 1), f), RatMul(PixelSizeOf(buf, 2), f)))

\* The statement about the linear-unit key, for the codes of a set.
C15_Statement(codes) ==
  (outcome.returned /\ PassesSizeChecks(upload.content) /\ HasPixelSizes(upload.content)) =>
    LET buf == upload.content
        res == outcome.result
    IN /\ res.ok
       /\ Len(res.warnings) <= 1
       /\ \A v \in codes :
            InlineUnitCode(buf, v) =>
              IF v = 9001 THEN res.warnings = <<>>
              ELSE IF v = 9002
                THEN /\ res.warnings = <<>>
                     /\ res.areaSqMeters = RoundDecimals(ExpectedArea(buf, Rat(381, 1250)), 2)
              ELSE IF v = 9003
                THEN /\ res.warnings = <<>>
                     /\ res.areaSqMeters = RoundDecimals(ExpectedArea(buf, Rat(1200, 3937)), 2)
              ELSE /\ Len(res.warnings) = 1
                   /\ res.warnings[1].code = RatInt(v)
                   /\ res.areaSqMeters = RoundDecimals(ExpectedArea(buf, RatInt(1)), 2)

\* C15: for a valid raster with an inline linear-unit key, code 9001 gives no
\* warning; every code other than 9001, 9002 and 9003 gives exactly one
\* warning naming the code, the area of meters and a successful result; codes
\* 9002 and 9003 give no warning and the areas of factors 0.3048 and
\* 1200/3937; there is never more than one warning.
C15_UnknownCodeWarnsOnce == C15_Statement(UnitCodes)

\* C16: for every accepted raster, areaSqMeters is w * h * (sx * f) * (sy * f)
\* rounded to 2 decimals, from the unrounded pixel sizes and the unit factor
\* of the linear-unit code, and areaAcres is the unrounded area divided by the
\* square meters of an acre, rounded to 2 decimals.
C16_AreaFromUnroundedPixelSizes ==
  (outcome.returned /\ outcome.result.ok) =>
    LET buf == upload.content
        area == ExpectedArea(buf, UnitFactorOf(buf))
    IN /\ PassesSizeChecks(buf) /\ HasPixelSizes(buf)
       /\ outcome.result.areaSqMeters = RoundDecimals(area, 2)
       /\ outcome.result.areaAcres = RoundDiv(RoundDecimals(area, 6), SqMetersPerAcreE4)

\* A 10 x 20 raster in meters with pixel sizes 1/25000 and 2: the X size is
\* reported as 0 and the area, from the unrounded size, as 0.02.
C16_Witness ==
  /\ upload.content = Tiff(1000, <<"I","I">>, <<42, 0>>,
                           <<EntryWidth, EntryHeight, EntryFineScale>>)
  /\ outcome.returned
  /\ outcome.result.ok
  /\ outcome.result.pixelSizeX = 0
  /\ outcome.result.areaSqMeters = 2

\* C17: every returned result has positive integer width and height, pixel
\* sizes above 0 after the rounding to 4 decimals, and a non-negative area.
C17_ResultSatisfiesDataModel ==
  (outcome.returned /\ outcome.result.ok) =>
    /\ outcome.result.width.d = 1 /\ outcome.result.width.n > 0
    /\ outcome.result.height.d = 1 /\ outcome.result.height.n > 0
    /\ outcome.result.pixelSizeX > 0
    /\ outcome.result.pixelSizeY > 0
    /\ outcome.result.areaSqMeters >= 0

\* The three parts taken apart, each for the results it is about.
C17_WidthIsPositiveInteger ==
  (outcome.returned /\ outcome.result.ok) =>
    outcome.result.width.d = 1 /\ outcome.result.width.n > 0
C17_RoundedPixelSizePositive ==
  (outcome.returned /\ outcome.result.ok) => outcome.result.pixelSizeX > 0
C17_AreaNotNegative ==
  (outcome.returned /\ outcome.result.ok) => outcome.result.areaSqMeters >= 0

-----------------------------------------------------------------------------
(* Properties of parseZipEntries (under SpecPoly, through .zip uploads) *)

\* The upload is an archive under a .zip name, and the call has settled.
ZipCallSettled ==
  /\ outcome.returned
  /\ upload.name \in NamesZip
  /\ upload.content.kind = "zip"

\* The occurrences of the end signature at the offsets from
\* max(0, length - 65557) to length - 22, and the one closest to the end.
SignaturesInWindow(content) ==
  {content.signatures[i] : i \in
     {j \in 1..Len(content.signatures) :
        /\ content.signatures[j].offset >= 0
        /\ content.signatures[j].offset >= content.byteLength - EocdWindow
        /\ content.signatures[j].offset + EocdSize <= content.byteLength}}
ClosestToEnd(S) == CHOOSE e \in S : \A f \in S : f.offset <= e.offset
ResultOfDirectory(entries) == parseZipBundle(readEntries(entries, 1, <<>>))

\* C18: an archive without end signature at an offset between
\* max(0, length - 65557) and length - 22 (every buffer shorter than 22 bytes
\* included) fails with 'Invalid ZIP file.'; with one or more occurrences in
\* that window, the archive is read through the directory of the occurrence
\* closest to the end of the buffer.
C18_EndSignatureSearch ==
  ZipCallSettled =>
    LET found == SignaturesInWindow(upload.content)
    IN /\ found = {} => outcome.result = Throw("Invalid ZIP file.")
       /\ found # {} => /\ outcome.result # Throw("Invalid ZIP file.")
                        /\ outcome.result = ResultOfDirectory(ClosestToEnd(found).entries)

\* An archive with two occurrences in the window is read through the later
\* one, whose shapefile gives another result than that of the earlier one.
C18_Witness ==
  /\ upload.name \in NamesZip
  /\ upload.content = ZipAt(1000, << Eocd(900, DirG1), Eocd(1000 - EocdSize, DirQuad) >>)
  /\ outcome.returned
  /\ outcome.result.ok
  /\ outcome.result = ResultOfDirectory(DirQuad)
  /\ outcome.result # ResultOfDirectory(DirG1)

\* The directory an archive is read through, the members that are not in the
\* map returned, and the members whose local header signature is wrong.
DirectoryRead(content) == ClosestToEnd(SignaturesInWindow(content)).entries
MembersSkipped(content) ==
  LET dir == DirectoryRead(content)
      files == parseZipEntries(content).files
  IN {i \in 1..Len(dir) :
        ~\E k \in 1..Len(files) :
            files[k].key = toLowerCase(lastSegment(dir[i].name)) /\ files[k].value = dir[i].data}
MembersWithBadLocalSignature(content) ==
  {i \in 1..Len(DirectoryRead(content)) : ~DirectoryRead(content)[i].localSigOk}

\* C19: an archive with a member whose local header signature is wrong fails
\* as a whole, and the only members left out of an archive that is read are
\* those with an unsupported compression method.
C19_BadLocalSignatureFails ==
  (ZipCallSettled /\ SignaturesInWindow(upload.content) # {}) =>
    /\ MembersWithBadLocalSignature(upload.content) # {} => ~outcome.result.ok
    /\ \A i \in MembersSkipped(upload.content) :
         DirectoryRead(upload.content)[i].compression \notin {0, 8}

\* The two parts taken apart.
C19_BadLocalSignatureIsAnError ==
  (ZipCallSettled /\ SignaturesInWindow(upload.content) # {}) =>
    (MembersWithBadLocalSignature(upload.content) # {} => ~outcome.result.ok)
C19_OnlyUnsupportedCompressionSkipped ==
  (ZipCallSettled /\ SignaturesInWindow(upload.content) # {}) =>
    \A i \in MembersSkipped(upload.content) :
      \/ DirectoryRead(upload.content)[i].compression \notin {0, 8}
      \/ ~DirectoryRead(upload.content)[i].localSigOk

-----------------------------------------------------------------------------
(* Several field-area requests in flight: every request of RequestIds has     *)
(* arrived, and the handlers take their steps (from one await to the next) in *)
(* any order.                                                                 *)

RasterMeters ==
  File(<<"r",".","t","i","f">>,
       Tiff(1000, <<"I","I">>, <<42, 0>>, <<EntryWidth, EntryHeight, EntryScale>>))
RasterFeet ==
  File(<<"R",".","T","I","F","F">>,
       Tiff(1000, <<"M","M">>, <<0, 42>>,
            <<EntryWidth, EntryHeight, EntryScale, EntryTiePoint, EntryGeoKeys(9002)>>))
RasterTooSmall == File(<<"r",".","t","i","f">>, Tiff(4, <<"I","I">>, <<42, 0>>, <<>>))
RasterPng == File(<<"r",".","p","n","g">>, RasterMeters.content)
PolygonJson == File(<<"a">> \o Ext_geojson, Json(PolygonGeom(<<RingG1>>)))
PolygonBundle == File(<<"A",".","Z","i","p">>, Bundle(ShpOf(<<RingP1>>), <<DbfGood>>, <<PrjFoot>>))
PolygonNotJson == File(<<"a">> \o Ext_geojson, NotJson)

ConcurrentForms ==
  { Form(NotAFile, PolygonJson), Form(RasterMeters, NotAFile), Form(RasterPng, PolygonJson),
    Form(RasterTooSmall, PolygonJson), Form(RasterMeters, PolygonNotJson),
    Form(RasterMeters, PolygonJson), Form(RasterFeet, PolygonBundle),
    Form(RasterFeet, PolygonJson) }

InitConcurrent ==
  /\ form \in [RequestIds -> ConcurrentForms]
  /\ pc = Idle("start")
  /\ tiff = Idle(NotRun)
  /\ polygon = Idle(NotRun)
  /\ response = Idle(NoResponse)
  /\ reads = Idle(<<>>)
  /\ upload = NotAFile
  /\ outcome = NoOutcome

SpecConcurrent == InitConcurrent /\ [][Next]_vars

\* The response of a request that runs alone on a form: lines 13-23, then the
\* two estimators, the raster one first.
AloneResponse(f) ==
  IF ~f.tiffFile.isFile THEN ErrorResponse("Missing TIFF file in form field 'tiffFile'.")
  ELSE IF ~f.polygonFile.isFile
    THEN ErrorResponse("Missing polygon file in form field 'polygonFile'.")
  ELSE IF ~isTiffName(f.tiffFile.name) THEN ErrorResponse("TIFF input must be .tif or .tiff.")
  ELSE OutcomeInOrder(f, "raster")

\* Under Spec, where request r1 runs alone, its response is AloneResponse.
AloneResponseIsTheResponseAlone ==
  pc["r1"] = "done" => response["r1"] = AloneResponse(form["r1"])

\* C20: in every interleaving of the requests, the response of a finished
\* request is the response the request yields when it runs alone on its two
\* files, whatever the other requests are and however far they have got.
C20_ResponseAsWhenAlone ==
  \A r \in RequestIds : pc[r] = "done" => response[r] = AloneResponse(form[r])

\* Request r1 has answered with its own success while request r2, on another
\* raster and another polygon file, holds its raster result and is waiting
\* for its polygon file.
C20_Witness ==
  /\ form["r1"] = Form(RasterMeters, PolygonJson)
  /\ form["r2"] = Form(RasterFeet, PolygonBundle)
  /\ pc["r2"] = "polygon"
  /\ tiff["r2"].ran
  /\ pc["r1"] = "done"
  /\ response["r1"] = SuccessResponse(form["r1"], RasterOf("r1"), PolygonOf("r1"))
  /\ response["r1"].body.tiff.areaSqMeters # tiff["r2"].result.areaSqMeters

\* The key of a member, and the members of a directory that can be read: a
\* right local header signature, compression method 0 or 8, a name with a
\* last segment.  (No directory of the pool has two readable members of one
\* key.)
KeyOf(member) == toLowerCase(lastSegment(member.name))
Unsupported(member) == member.compression \notin {0, 8}
Readable(member) ==
  member.localSigOk /\ ~Unsupported(member) /\ lastSegment(member.name) # <<>>
Holds(files, member) ==
  \E k \in 1..Len(files) : files[k].key = KeyOf(member) /\ files[k].value = member.data

\* C21: an archive whose end record is found is read without error whatever
\* the compression methods of its members; a member with a method other than
\* 0 and 8 is not in the mapping returned, and every readable member, before
\* or after it in the directory, is in it under the lower-cased last segment
\* of its name.
C21_UnsupportedMemberSkipped ==
  (ZipCallSettled /\ SignaturesInWindow(upload.content) # {}) =>
    LET dir == DirectoryRead(upload.content)
        read == parseZipEntries(upload.content)
    IN /\ read.ok
       /\ outcome.result # Throw("Invalid ZIP file.")
       /\ \A i \in 1..Len(dir) :
            /\ Unsupported(dir[i]) => ~Holds(read.files, dir[i])
            /\ Readable(dir[i]) => Holds(read.files, dir[i])

\* An archive with an unsupported a.prj between b.dbf, dir/A.SHP and a.dbf
\* gives the result of a.shp with a.dbf and without description text.
C21_Witness ==
  /\ ZipCallSettled
  /\ upload.content = Zip(TRUE, DirMixed)
  /\ outcome.result.ok
  /\ outcome.result =
       parseShpWithContext(ShpOf(<<RingP1>>), "zip-shp",
                           [dbfBuffer |-> [present |-> TRUE, content |-> DbfGood],
                            prjText |-> NoText])

-----------------------------------------------------------------------------
(* Properties of combineRings (under SpecPoly, through bundles and uploads) *)

\* The bundles of a projected .shp, the good .dbf and one description text or
\* none.
C22_Lists == C11_Lists \cup { <<RingPFeet>> }
C22_Texts == SeqsUpTo(PrjContents \cup {PrjUSFoot, PrjUsSurveyFoot}, 1)
Str_us == <<"u","s">>

\* The factor a description text stands for: with exact = FALSE by the words
\* it mentions ("foot" and "us", "foot" alone, none or "meter"), with
\* exact = TRUE by "foot_us" or "us survey foot" in place of "foot" and "us".
\* The factor 0 stands for the failure asking for units.
FactorOfText(prjs, exact) ==
  LET text == IF prjs = <<>> THEN <<>> ELSE toLowerCase(prjs[1].text)
      survey == IF exact
                THEN includes(text, Str_foot_us) \/ includes(text, Str_us_survey_foot)
                ELSE includes(text, Str_foot) /\ includes(text, Str_us)
  IN IF survey THEN Rat(1200, 3937)
     ELSE IF includes(text, Str_foot) THEN Rat(381, 1250)
     ELSE IF text = <<>> \/ includes(text, Str_meter) THEN RatInt(1)
     ELSE RatInt(0)

C22_Statement(exact) ==
  \A L \in C22_Lists, prjs \in C22_Texts :
    (upload.content = Bundle(ShpOf(L), <<DbfGood>>, prjs)
     /\ upload.name \in NamesZip /\ outcome.returned) =>
      LET f == FactorOfText(prjs, exact)
      IN IF f.n = 0
           THEN outcome.result =
                  Throw("Projected shapefile units are unknown. Include .prj with meter/foot units.")
         ELSE IF C11_NativeTwiceArea(L) = 0 THEN outcome.result = Throw("Polygon area is zero.")
         ELSE /\ outcome.result.ok
              /\ outcome.result.areaSqMeters =
                   Amount("0.01",
                          RoundDecimals(RatMul(RatMul(Rat(C11_NativeTwiceArea(L), 2 * Scale * Scale),
                                                      f), f), 2))

\* C22: in the projected branch the factor is that of the description text,
\* whatever its case: 1200/3937 for a text mentioning "foot" and "us", 0.3048
\* for one mentioning "foot" without "us", 1 for no text or one mentioning
\* "meter", and the failure asking for units for any other text; the area
\* reported is the shoelace area times the factor squared.
C22_FactorByWordsOfText == C22_Statement(FALSE)

\* C22 (amended): in the projected branch the factor is that of the
\* description text, whatever its case: 1200/3937 for a text containing
\* "foot_us" or "us survey foot", 0.3048 for any other text containing "foot",
\* 1 for no text or a text containing "meter", and the failure asking for
\* units for any other text; the area reported is the shoelace area times the
\* factor squared.
C22_FactorBySubstringsOfText == C22_Statement(TRUE)

\* A bundle described as "UNIT[US Foot]" is computed with 0.3048: 35.8975
\* square units are reported as 3.33 square meters, not 3.34.
C22_Witness ==
  /\ upload.name \in NamesZip
  /\ upload.content = Bundle(ShpOf(<<RingPFeet>>), <<DbfGood>>, <<PrjUSFoot>>)
  /\ outcome.returned
  /\ outcome.result.ok
  /\ outcome.result.areaSqMeters = Amount("0.01", 333)

\* The .shp content that reaches combineRings: the upload itself under a .shp
\* name, or the first member of an archive when it is a readable a.shp.
C23_HasShp ==
  \/ upload.name \in NamesShp /\ upload.content.kind = "shp"
  \/ /\ upload.name \in NamesZip /\ upload.content.kind = "zip"
     /\ SignaturesInWindow(upload.content) # {}
     /\ DirectoryRead(upload.content) # <<>>
     /\ DirectoryRead(upload.content)[1].name = Name_a_shp
     /\ Readable(DirectoryRead(upload.content)[1])
C23_Shp ==
  IF upload.name \in NamesShp THEN upload.content ELSE DirectoryRead(upload.content)[1].data
\* The description texts of an archive (none for a .shp uploaded on its own).
C23_Texts ==
  IF upload.name \in NamesShp THEN <<>>
  ELSE LET prj == SelectSeq(DirectoryRead(upload.content),
                            LAMBDA m : m.name = Name_a_prj /\ Readable(m))
       IN [i \in 1..Len(prj) |-> prj[i].data]

\* The rings are handed to combineRings: no companion .dbf is read, or its
\* read does not throw.
C23_ReachesCombineRings ==
  upload.name \in NamesZip =>
    \A i \in 1..Len(DirectoryRead(upload.content)) :
       LET m == DirectoryRead(upload.content)[i]
       IN (m.name = Name_a_dbf /\ Readable(m)) => ~dbfReadThrows(m.data)

AllPointsInRange(rings) == \A i \in 1..Len(rings) : \A j \in 1..Len(rings[i]) : InRange(rings[i][j])
GeodesicSum(rings) ==
  LET sum[i \in 0..Len(rings)] ==
        IF i = 0 THEN 0 ELSE sum[i - 1] + ringGeodesicSignedAreaSqMeters(rings[i])
  IN Abs(sum[Len(rings)])

\* C23: when every point of every ring is within [-180,180] x [-90,90], bounds
\* included, the area reported is the sum of the geodesic areas of all rings
\* (and a result is returned when that sum is not zero); when one point of
\* one ring is outside, a result reports the sum of the planar areas of all
\* rings, those within the range included, times the unit factor squared.
C23_OneDecisionForAllRings ==
  (outcome.returned /\ C23_HasShp /\ parseShpRings(C23_Shp).ok
   /\ parseShpRings(C23_Shp).rings # <<>> /\ C23_ReachesCombineRings) =>
    LET rings == parseShpRings(C23_Shp).rings
        f == FactorOfText(C23_Texts, TRUE)
    IN IF AllPointsInRange(rings)
       THEN IF GeodesicSum(rings) = 0 THEN outcome.result = Throw("Polygon area is zero.")
            ELSE /\ outcome.result.ok
                 /\ outcome.result.areaSqMeters = Amount("geodesic", GeodesicSum(rings))
       ELSE outcome.result.ok =>
              outcome.result.areaSqMeters =
                Amount("0.01",
                       RoundDecimals(RatMul(RatMul(Rat(C11_NativeTwiceArea(rings), 2 * Scale * Scale),
                                                   f), f), 2))

\* A bundle of a ring within the range and a ring outside it is computed
\* with the planar formula for both rings.
C23_Witness ==
  /\ upload.name \in NamesZip
  /\ upload.content = Bundle(ShpOf(<<RingSliver, RingP1>>), <<DbfGood>>, <<PrjMeter>>)
  /\ InRange(RingSliver[1]) /\ InRange(RingSliver[2]) /\ InRange(RingSliver[3])
  /\ outcome.returned
  /\ outcome.result.ok
  /\ outcome.result.areaSqMeters =
       Amount("0.01", RoundDecimals(Rat(Abs(ringPlanarSignedArea(RingSliver)
                                            + ringPlanarSignedArea(RingP1)),
                                        2 * Scale * Scale), 2))

-----------------------------------------------------------------------------
(* The centroid of estimateAreaFromGeoTiff (under SpecTiff) *)

\* The geo-key directory holds key 1024 inline (tag location 0, one value)
\* with value 2.
ModelTypeIsGeographic(buf) ==
  LET v == DecodedValues(buf, 34735)
  IN /\ Len(v) >= 4
     /\ \E k \in 1..(v[4].n \div v[4].d) :
          /\ 4 * k + 4 <= Len(v)
          /\ v[4 * k + 1] = RatInt(1024) /\ v[4 * k + 2] = RatInt(0)
          /\ v[4 * k + 3] = RatInt(1) /\ v[4 * k + 4] = RatInt(2)

\* The image center (width/2, height/2) through the tie point and the scale.
CenterLon(buf) ==
  LET tie == DecodedValues(buf, 33922)
      scale == DecodedValues(buf, 33550)
  IN RatAdd(tie[4], RatMul(RatSub(RatMul(FirstValue(buf, 256), Rat(1, 2)), tie[1]), scale[1]))
CenterLat(buf) ==
  LET tie == DecodedValues(buf, 33922)
      scale == DecodedValues(buf, 33550)
  IN RatSub(tie[5], RatMul(RatSub(RatMul(FirstValue(buf, 257), Rat(1, 2)), tie[2]), scale[2]))
HasCentroidData(buf) ==
  /\ ModelTypeIsGeographic(buf)
  /\ Len(DecodedValues(buf, 33922)) >= 6
  /\ Len(DecodedValues(buf, 33550)) >= 2
CenterInRange(buf) ==
  /\ RatLeq(RatInt(-90), CenterLat(buf)) /\ RatLeq(CenterLat(buf), RatInt(90))
  /\ RatLeq(RatInt(-180), CenterLon(buf)) /\ RatLeq(CenterLon(buf), RatInt(180))

\* C24: a result has a centroid iff the inline model-type key is 2, the tie
\* point has at least 6 elements, the pixel scale has at least 2 elements and
\* the image center through tie point and scale lies within [-90, 90] x
\* [-180, 180]; the centroid is that point; without centroid the raster is
\* still accepted.
C24_CentroidExactlyWhenGeographic ==
  (outcome.returned /\ PassesSizeChecks(upload.content) /\ HasPixelSizes(upload.content)) =>
    LET buf == upload.content
    IN /\ outcome.result.ok
       /\ IF HasCentroidData(buf) /\ CenterInRange(buf)
          THEN outcome.result.centroid =
                 [present |-> TRUE, lat |-> CenterLat(buf), lon |-> CenterLon(buf)]
          ELSE ~outcome.result.centroid.present

\* A geographic raster whose center is at latitude 90 exactly has the
\* centroid (90, -118.5).
C24_Witness ==
  /\ upload.content =
       Tiff(1000, <<"I","I">>, <<42, 0>>,
            <<EntryWidth, EntryHeight, EntryScale, EntryGeoKeys(9001),
              Entry(33922, 12, Ints(<<0, 0, 0, -121, 95, 0>>))>>)
  /\ outcome.returned
  /\ outcome.result.ok
  /\ outcome.result.centroid = [present |-> TRUE, lat |-> RatInt(90), lon |-> Rat(-237, 2)]

-----------------------------------------------------------------------------
(* ringGeodesicSignedAreaSqMeters called on its own: src/lib/polygonFile.ts   *)
(* 49-58.  The ring is given as it is, in reverse order, and with another     *)
(* starting point.                                                            *)

MaxRingPoints == 4

\* Points of the geographic range at the latitudes of TwoSin.
GeodesicPoints ==
  { XY(0, 0), XY(10 * Scale, 0), XY(10 * Scale, 30 * Scale), XY(0, 30 * Scale),
    XY(-20 * Scale, -30 * Scale), XY(5 * Scale, 90 * Scale) }
GeodesicInputs == SeqsUpTo(GeodesicPoints, MaxRingPoints)

\* The ring started at its point shift + 1; for a ring given closed, the
\* rotation of its distinct points, closed again.
Rotate(ring, shift) == SubSeq(ring, shift + 1, Len(ring)) \o SubSeq(ring, 1, shift)
IsClosed(ring) == Len(ring) >= 2 /\ ring[1] = ring[Len(ring)]
RotateClosed(ring, shift) ==
  LET open == SubSeq(ring, 1, Len(ring) - 1)
      turned == Rotate(open, shift % Len(open))
  IN Append(turned, turned[1])

RingInput(points, shift) ==
  [isFile |-> FALSE, name |-> <<>>,
   content |-> [kind |-> "ring", points |-> points, shift |-> shift]]

MeasureRing ==
  /\ ~outcome.returned
  /\ upload.content.kind = "ring"
  /\ LET ring == upload.content.points
         shift == upload.content.shift
     IN outcome' =
          [returned |-> TRUE,
           result |-> [ok |-> TRUE,
                       area |-> ringGeodesicSignedAreaSqMeters(ring),
                       reversed |-> ringGeodesicSignedAreaSqMeters(Reverse(ring)),
                       rotated |-> ringGeodesicSignedAreaSqMeters(Rotate(ring, shift)),
                       rotatedClosed |->
                         IF IsClosed(ring)
                         THEN ringGeodesicSignedAreaSqMeters(RotateClosed(ring, shift))
                         ELSE ringGeodesicSignedAreaSqMeters(Rotate(ring, shift))],
           via |-> "ringGeodesicSignedAreaSqMeters",
           read |-> "none"]
  /\ UNCHANGED <<pc, form, tiff, polygon, response, reads, upload>>

InitRing ==
  /\ \E points \in GeodesicInputs :
       \E shift \in 0..(IF Len(points) = 0 THEN 0 ELSE Len(points) - 1) :
          upload = RingInput(points, shift)
  /\ outcome = NoOutcome
  /\ form = Idle(NoForm)
  /\ pc = Idle("idle")
  /\ tiff = Idle(NotRun)
  /\ polygon = Idle(NotRun)
  /\ response = Idle(NoResponse)
  /\ reads = Idle(<<>>)

NextRing == MeasureRing

SpecRing == InitRing /\ [][NextRing]_vars

\* C25: the geodesic area of a ring of geographic points changes sign and
\* keeps its absolute value when the order of the points is reversed, and
\* stays the same when the ring is started at another of its points, for a
\* ring given closed and for a ring given unclosed.
C25_ReversalFlipsRotationKeeps ==
  outcome.returned =>
    /\ outcome.result.reversed = -outcome.result.area
    /\ outcome.result.rotated = outcome.result.area
    /\ outcome.result.rotatedClosed = outcome.result.area

\* An unclosed triangle of area other than zero, started at its second point.
C25_Witness ==
  /\ outcome.returned
  /\ upload.content.points = <<XY(0, 0), XY(10 * Scale, 0), XY(10 * Scale, 30 * Scale)>>
  /\ upload.content.shift = 1
  /\ outcome.result.area # 0
  /\ outcome.result.rotated = outcome.result.area
  /\ outcome.result.reversed = -outcome.result.area

-----------------------------------------------------------------------------
(* Properties of parseLonLatTable (under SpecPoly, through table uploads) *)

\* The lines of a table that are not empty, the columns (1-based) its header
\* names for longitude and latitude (0 when the header names none), and the
\* data rows that hold a number in both columns; a blank cell counts as a
\* number only when blankIsNumber.
TableLinesOf(content) == SelectSeq(content.lines, LAMBDA l : l # <<BlankCell>>)
LonColumn(header) ==
  CASE header = HeaderLonLat -> 1
    [] header = HeaderLatLong -> 2
    [] header = HeaderIdXY -> 2
    [] OTHER -> 0
LatColumn(header) ==
  CASE header = HeaderLonLat -> 2
    [] header = HeaderLatLong -> 1
    [] header = HeaderIdXY -> 3
    [] OTHER -> 0
HoldsNumber(row, column, blankIsNumber) ==
  /\ column <= Len(row)
  /\ \/ row[column].kind = "number"
     \/ blankIsNumber /\ row[column].kind = "blank"
AcceptedRows(content, blankIsNumber) ==
  LET lines == TableLinesOf(content)
  IN SelectSeq(Tail(lines),
               LAMBDA row : /\ HoldsNumber(row, LonColumn(lines[1]), blankIsNumber)
                            /\ HoldsNumber(row, LatColumn(lines[1]), blankIsNumber))

C26_Statement(blankIsNumber) ==
  (outcome.returned /\ upload.name \in NamesTable /\ upload.content.kind = "table"
   /\ TableLinesOf(upload.content) # <<>>) =>
    LET lines == TableLinesOf(upload.content)
        accepted == AcceptedRows(upload.content, blankIsNumber)
    IN /\ (LonColumn(lines[1]) = 0 \/ Len(accepted) < 3) => ~outcome.result.ok
       /\ outcome.result.ok =>
            /\ outcome.result.ringCount = 1
            /\ outcome.result.pointCount = Len(accepted)
            /\ outcome.result.source = "table"

\* C26: the points of a table are its data rows with a number in the
\* longitude cell and in the latitude cell (a row with a missing, blank or
\* non-numeric cell gives no point); they form one ring of source "table",
\* and the table is rejected with fewer than 3 such rows or without a
\* longitude/latitude header pair.
C26_PointsAreNumericRows == C26_Statement(FALSE)

\* The same with a blank cell read as the number 0.
C26_PointsCountBlankCells == C26_Statement(TRUE)

-----------------------------------------------------------------------------
(* Properties of parseDbfLonLat (under SpecPoly, through bundles of a         *)
(* projected .shp, whose centroid is the one the .dbf gives)                  *)

C27_Dbfs == DbfContents \cup {DbfBlank, DbfOnlyBlank}

\* The value of a field as a coordinate: that of a number; 0 for a blank
\* field when blankIsNumber; none otherwise.
FieldIsNumber(cell, blankIsNumber) ==
  cell.kind = "number" \/ (blankIsNumber /\ cell.kind = "blank")
FieldValue(cell) == IF cell.kind = "number" THEN cell.v ELSE 0
\* The records that count: not deleted, a number within the range in the
\* longitude field (column 2) and in the latitude field (column 3).
QualifyingRecords(dbf, blankIsNumber) ==
  IF dbf.fields # FieldsIdLonLat THEN <<>>
  ELSE SelectSeq(dbf.records,
                 LAMBDA rec : /\ ~rec.deleted
                              /\ FieldIsNumber(rec.values[2], blankIsNumber)
                              /\ FieldIsNumber(rec.values[3], blankIsNumber)
                              /\ InRange(XY(FieldValue(rec.values[2]), FieldValue(rec.values[3]))))
MeanOfRecords(recs, column) ==
  LET sum[i \in 0..Len(recs)] ==
        IF i = 0 THEN 0 ELSE sum[i - 1] + FieldValue(recs[i].values[column])
  IN Rat(sum[Len(recs)], Len(recs) * Scale)

C27_Statement(blankIsNumber) ==
  \A dbf \in C27_Dbfs :
    (outcome.returned /\ upload.name \in NamesZip
     /\ upload.content = Bundle(ShpOf(<<RingP1>>), <<dbf>>, <<PrjMeter>>)) =>
      LET recs == QualifyingRecords(dbf, blankIsNumber)
      IN IF recs = <<>>
         THEN outcome.result =
                Throw("Polygon is projected. Add longitude/latitude columns in DBF or use WGS84 geometry.")
         ELSE /\ outcome.result.ok
              /\ outcome.result.centroidLon = RoundDecimals(MeanOfRecords(recs, 2), 6)
              /\ outcome.result.centroidLat = RoundDecimals(MeanOfRecords(recs, 3), 6)

\* C27: the .dbf gives the mean of the records that are not deleted and hold
\* decimal text within the range in the longitude and latitude fields;
\* deleted records and records with a blank, non-numeric or out-of-range
\* field count for nothing, and the .dbf gives nothing when no record counts
\* or no column pair is found.
C27_MeanOfQualifyingRecords == C27_Statement(FALSE)

\* The same with a blank field read as the number 0.
C27_MeanCountsBlankFields == C27_Statement(TRUE)

-----------------------------------------------------------------------------
(* The record walk of parseShpRings, one iteration of its loop per step      *)
(* (SpecWalk). The buffer is given byte by byte for the file code and the    *)
(* record headers; the parts and points of a polygon record are given        *)
(* decoded, by the offset of the record's content.                           *)

MaxShpRecords == 2

Zeros(n) == [i \in 1..n |-> 0]
BytesBE(v) ==
  LET w == IF v < 0 THEN v + 2147483647 + 1 ELSE v
      top == (w \div 16777216) + (IF v < 0 THEN 128 ELSE 0)
  IN << top, (w \div 65536) % 256, (w \div 256) % 256, w % 256 >>
BytesLE(v) == Reverse(BytesBE(v))

\* DataView.getInt32: a RangeError outside the buffer (inBuffer is FALSE)
InBuffer(bytes, offset) == offset >= 0 /\ offset + 4 <= Len(bytes)
SignedOf(b0, b1, b2, b3) ==
  (IF b0 >= 128 THEN b0 - 256 ELSE b0) * 16777216 + b1 * 65536 + b2 * 256 + b3
readInt32BE(bytes, offset) ==
  SignedOf(bytes[offset + 1], bytes[offset + 2], bytes[offset + 3], bytes[offset + 4])
readInt32LE(bytes, offset) ==
  SignedOf(bytes[offset + 4], bytes[offset + 3], bytes[offset + 2], bytes[offset + 1])

\* One record as it is laid out: record number, declared content length in
\* 16-bit words, then the content (shape type first) of `size` bytes.
RecordBytes(number, declaredWords, shapeType, size) ==
  BytesBE(number) \o BytesBE(declaredWords) \o BytesLE(shapeType) \o Zeros(size - 4)
HeaderBytes(fileCode) == BytesBE(fileCode) \o Zeros(96)
ShpBytes(bytes, bodies) == [kind |-> "shpBytes", bytes |-> bytes, bodies |-> bodies]
NoBodies == [o \in {} |-> 0]

\* Null shapes (4 bytes of content) and points (20 bytes), with a declared
\* length that is right, zero, negative or beyond the end.
WalkRecords ==
  { [shapeType |-> t, size |-> IF t = 0 THEN 4 ELSE 20, declared |-> d] :
      t \in {0, 1}, d \in {0 - 6, 0 - 4, 0, 1, 100} }
  \cup { [shapeType |-> 0, size |-> 4, declared |-> 2],
         [shapeType |-> 1, size |-> 20, declared |-> 10] }
RECURSIVE LayOut(_, _)
LayOut(recs, number) ==
  IF Len(recs) = 0 THEN <<>>
  ELSE RecordBytes(number, Head(recs).declared, Head(recs).shapeType, Head(recs).size)
       \o LayOut(Tail(recs), number + 1)
\* A well-formed file of one polygon record: the content is 44 bytes, the part
\* starts and the points.
PolygonFileBytes(shapeType, rings) ==
  LET size == 44 + 4 * Len(rings) + 16 * Len(Flatten(rings))
  IN ShpBytes(HeaderBytes(9994) \o RecordBytes(1, size \div 2, shapeType, size),
              [o \in {108} |-> ShpRecord(shapeType, rings)])
WalkBuffers ==
  { ShpBytes(HeaderBytes(9994) \o LayOut(recs, 1), NoBodies) :
      recs \in SeqsUpTo(WalkRecords, MaxShpRecords) }
  \cup { ShpBytes(HeaderBytes(9994) \o LayOut(recs, 1) \o Zeros(4), NoBodies) :
           recs \in SeqsUpTo(WalkRecords, 1) }
  \cup { PolygonFileBytes(5, <<RingG1>>), PolygonFileBytes(15, <<RingG1, RingG2r>>),
         ShpBytes(HeaderBytes(1234), NoBodies),
         ShpBytes(BytesBE(9994) \o Zeros(46), NoBodies) }

\* The loop's variables, with the offset at the start of the last iteration
\* (iterated is FALSE before the first one).
Walking(offset, iterated, previous, rings) ==
  [returned |-> FALSE, result |-> Throw(""), via |-> "walk", read |-> "none",
   offset |-> offset, iterated |-> iterated, previous |-> previous, rings |-> rings]
WalkDone(result) ==
  [returned |-> TRUE, result |-> result, via |-> "walk", read |-> "none"]

\* lines 236-242: the checks before the loop
WalkStart ==
  /\ outcome = NoOutcome
  /\ upload.content.kind = "shpBytes"
  /\ LET bytes == upload.content.bytes
     IN outcome' =
          IF Len(bytes) < 100 THEN WalkDone(Throw("Invalid .shp file."))
          ELSE IF readInt32BE(bytes, 0) # 9994 THEN WalkDone(Throw("Invalid shapefile header."))
          ELSE Walking(100, FALSE, 100, <<>>)
  /\ UNCHANGED <<pc, form, tiff, polygon, response, reads, upload>>

\* The content length of the record at the offset, in bytes; the loop breaks
\* when the content would end beyond the buffer.
LoopContinues(bytes, offset) == offset + 8 <= Len(bytes)
ContentBytes(bytes, offset) == readInt32BE(bytes, offset + 4) * 2
Breaks(bytes, offset) ==
  InBuffer(bytes, offset + 4) /\ offset + 8 + ContentBytes(bytes, offset) > Len(bytes)

\* lines 244-277: one iteration that reaches the end of the loop body, or
\* stops on a read outside the buffer
WalkStep ==
  /\ ~outcome.returned /\ outcome.via = "walk"
  /\ LET bytes == upload.content.bytes
         bodies == upload.content.bodies
         offset == outcome.offset
         contentStart == offset + 8
     IN /\ LoopContinues(bytes, offset)
        /\ ~Breaks(bytes, offset)
        /\ outcome' =
             IF ~InBuffer(bytes, offset + 4) \/ ~InBuffer(bytes, contentStart)
               THEN WalkDone(RangeError)
             ELSE LET shapeType == readInt32LE(bytes, contentStart)
                      found == IF shapeType \in {5, 15, 25} /\ contentStart \in DOMAIN bodies
                               THEN recordRings(bodies[contentStart]) ELSE <<>>
                  IN IF shapeType \in {5, 15, 25} /\ ~InBuffer(bytes, contentStart + 40)
                       THEN WalkDone(RangeError)
                     ELSE Walking(contentStart + ContentBytes(bytes, offset), TRUE, offset,
                                  outcome.rings \o found)
  /\ UNCHANGED <<pc, form, tiff, polygon, response, reads, upload>>

\* lines 244, 248, 279: the loop ends and the rings are returned
WalkEnd ==
  /\ ~outcome.returned /\ outcome.via = "walk"
  /\ LET bytes == upload.content.bytes
         offset == outcome.offset
     IN /\ ~LoopContinues(bytes, offset) \/ Breaks(bytes, offset)
        /\ outcome' = WalkDone([ok |-> TRUE, rings |-> outcome.rings])
  /\ UNCHANGED <<pc, form, tiff, polygon, response, reads, upload>>

InitWalk ==
  /\ \E content \in WalkBuffers : upload = File(Name_a_shp, content)
  /\ outcome = NoOutcome
  /\ form = Idle(NoForm)
  /\ pc = Idle("idle")
  /\ tiff = Idle(NotRun)
  /\ polygon = Idle(NotRun)
  /\ response = Idle(NoResponse)
  /\ reads = Idle(<<>>)

NextWalk == WalkStart \/ WalkStep \/ WalkEnd

SpecWalk == InitWalk /\ [][NextWalk]_vars

\* The loop is a sequential program: an iteration that can run does run.
SpecWalkFair == SpecWalk /\ WF_vars(NextWalk)

InWalk == ~outcome.returned /\ outcome.via = "walk"

\* C28: in the record walk of a buffer of at least 100 bytes with file code
\* 9994, the record offset is larger after every iteration than before it
\* (so the walk ends, with the rings or a throw), also when a record header
\* declares a zero or negative content length.
C28_OffsetStrictlyIncreases ==
  (InWalk /\ outcome.iterated) => outcome.offset > outcome.previous

\* The part for declared lengths of zero or more: the offset increases.
C28_OffsetIncreasesAfterNonNegativeLength ==
  (InWalk /\ outcome.iterated
   /\ readInt32BE(upload.content.bytes, outcome.previous + 4) >= 0)
    => outcome.offset > outcome.previous

\* The walk of every buffer ends.
C28_WalkTerminates == <>(outcome.returned)

-----------------------------------------------------------------------------
(* The order of the checks of the field-area request (under Spec) *)

\* The checks in the order of the claim: the first that fails on the form, and
\* the message it gives (the estimators' own messages for the last two).
FirstFailure(f) ==
  IF ~f.tiffFile.isFile THEN "tiffPart"
  ELSE IF ~f.polygonFile.isFile THEN "polygonPart"
  ELSE IF ~(endsWith(toLowerCase(f.tiffFile.name), Ext_tif)
            \/ endsWith(toLowerCase(f.tiffFile.name), Ext_tiff)) THEN "tiffName"
  ELSE IF ~estimateAreaFromGeoTiff(f.tiffFile.content).ok THEN "raster"
  ELSE IF ~parsePolygonUpload(f.polygonFile).result.ok THEN "polygon"
  ELSE "none"
MessageOf(f, check) ==
  CASE check = "tiffPart" -> "Missing TIFF file in form field 'tiffFile'."
    [] check = "polygonPart" -> "Missing polygon file in form field 'polygonFile'."
    [] check = "tiffName" -> "TIFF input must be .tif or .tiff."
    [] check = "raster" -> estimateAreaFromGeoTiff(f.tiffFile.content).error
    [] check = "polygon" -> parsePolygonUpload(f.polygonFile).result.error
PolygonContentRead(r) ==
  \E i \in 1..Len(reads[r]) : reads[r][i] \in {"polygonFile.text", "polygonFile.arrayBuffer"}
RasterContentRead(r) ==
  \E i \in 1..Len(reads[r]) : reads[r][i] = "tiffFile.arrayBuffer"

\* C29: the checks run in the order raster part, polygon part, raster name,
\* raster estimator, polygon estimator; the first that fails gives the
\* response's error message, no later step runs, and the polygon estimator is
\* never invoked (the polygon file's content is never read) when the raster
\* part is missing, misnamed or fails to parse.
C29_FirstFailedCheckDecides ==
  \A r \in RequestIds :
    LET f == form[r]
        check == FirstFailure(f)
    IN /\ (pc[r] = "done" /\ check # "none") =>
             response[r] = [sent |-> TRUE, status |-> 400,
                            body |-> [error |-> MessageOf(f, check)]]
       /\ (pc[r] = "done" /\ check = "none") => response[r].status = 200
       /\ check \in {"tiffPart", "polygonPart", "tiffName"} =>
             (~tiff[r].ran /\ ~RasterContentRead(r))
       /\ check \in {"tiffPart", "polygonPart", "tiffName", "raster"} =>
             (~polygon[r].ran /\ ~PolygonContentRead(r))
       /\ polygon[r].ran => (tiff[r].ran /\ tiff[r].result.ok)

\* A request with a polygon file that would fail too is answered with the
\* raster estimator's message, the polygon file unread.
C29_Witness ==
  /\ pc["r1"] = "done"
  /\ FirstFailure(form["r1"]) = "raster"
  /\ ~parsePolygonUpload(form["r1"].polygonFile).result.ok
  /\ response["r1"].body.error = "Invalid TIFF byte order."
  /\ reads["r1"] = <<"tiffFile.arrayBuffer">>
  /\ ~polygon["r1"].ran

-----------------------------------------------------------------------------
(* A geographic bundle and its companion members (under SpecPoly) *)

\* The companions of a.shp in the bundles of the pool: none or one .dbf, none
\* or one .prj.
C30_Rings == {RingSliver, RingDiagonal}
C30_DbfLists(dbfs) == {<<>>} \cup {<<dbf>> : dbf \in dbfs}
C30_PrjLists == {<<>>} \cup {<<prj>> : prj \in PrjContents}
ShpAlone(rings) == File(upload.name, Bundle(ShpOf(rings), <<>>, <<>>))

\* The outcome of a bundle of rings within the range, with one of the .dbf
\* contents or none and any .prj or none, is that of the bundle of the .shp
\* alone.
C30_Statement(dbfs) ==
  \A L \in SeqsUpTo(C30_Rings, MaxRings) \ {<<>>} :
    \A ds \in C30_DbfLists(dbfs), ps \in C30_PrjLists :
      (outcome.returned /\ upload.name \in NamesZip
       /\ upload.content = Bundle(ShpOf(L), ds, ps)) =>
         outcome.result = parsePolygonUpload(ShpAlone(L)).result

\* C30: for a .zip bundle whose .shp points all lie within the geographic
\* range, the outcome is the same for every content, and for presence or
\* absence, of the companion .dbf and .prj: an unrecognized-unit .prj or an
\* unreadable .dbf never changes or fails the result.
C30_CompanionsNeverChangeGeographicResult == C30_Statement(DbfContents \cup DbfCuts)

\* The same for the .dbf contents whose header lies within the buffer.
C30_ReadableCompanionsNeverChange ==
  C30_Statement(DbfContents \cup {DbfCutInHeader, DbfCutInRecord, DbfCutShort})

====
